---- MODULE Spec2Model ----
(***************************************************************************)
(* Frame compositing and beauty-filter pipeline of BackdropEngine.         *)
(*                                                                         *)
(* A canvas is a record [width, height, px, flip]: px maps every position  *)
(* <<x, y>> of (1..width) \X (1..height) to a pixel, flip is the state of  *)
(* the 2D context's transform (TRUE after translate(width,0); scale(-1,1) *)
(* until the matching restore()).  Pixels are symbolic terms, tag first:   *)
(*   <<"T">>                 transparent black (a cleared canvas)          *)
(*   <<"f", x, y>>           pixel (x, y) of the input frame               *)
(*   <<"bg", x, y>>          pixel (x, y) of the background image          *)
(*   <<"black">>             fillStyle 'black'                             *)
(*   <<"mix", S>>            resampling of the set S of source pixels      *)
(*   <<"blur", r, c, N>>     blur of c, neighbourhood N, r in 1/100 px   *)
(*   <<"part", p>>           p with reduced alpha                          *)
(*   <<"over", s, d>>        translucent s drawn source-over d             *)
(* and the terms the beauty filters add further down.                      *)
(***************************************************************************)
EXTENDS Integers, Sequences, FiniteSets, TLC

\* ---- bounds of the model ----
MaxW == 2
MaxCalls == 3
MaxFaceCalls == 1
MaxSpecs == 2
MaxPreloads == 2
MaxFilters == 1
MaxSkip == 2
MaxFrames == 4
MaxTime == 8
MaxWebcamCalls == 4
MaxLoads == 3
MaxRuns == 2
MaxJeelizInits == 2
MaxCallbacks == 3
MaxEffects == 3
MaxDraws == 2
MaxDebugCalls == 1

\* document.createElement('canvas') starts larger than every frame of the model
\* (300 x 150 in a browser).
DefaultW == MaxW + 1

Undef == "undef"
\* an absent numeric option
NoNumber == 0 - 1

VARIABLES out, ctxOK, call, tempCanvas, originalCanvas, calls, scratchMade,
          preloads, backgrounds, defaultMode, availableBackgrounds, currentBackground

\* the canvases of the compositor and the state of the hook's background list
canvasVars == <<out, ctxOK, call, tempCanvas, originalCanvas, calls, scratchMade>>
hookVars == <<preloads, backgrounds, defaultMode, availableBackgrounds, currentBackground>>

\* the state of the hook's compositing loop and of its setters
VARIABLES status, enableFaceFilters, frameSkip, faceDetections, beautyFilters, mirror,
          videoReady, loop, composited, now, lastBgChange, requestedBackground, jeeliz

loopVars == <<status, enableFaceFilters, frameSkip, faceDetections, beautyFilters, mirror,
              videoReady, loop, composited, now, lastBgChange, requestedBackground, jeeliz>>

\* a WebcamManager, the calls made on it and their outcomes, a MediaPipeLoader and
\* window.SelfieSegmentation
VARIABLES webcam, webcamLog, loader, windowSelfieSegmentation, jeelizManager, effects

managerVars == <<webcam, webcamLog, loader, windowSelfieSegmentation, jeelizManager, effects>>

\* the runs of the hook's initialisation effect, its error state, the calls of onError
VARIABLES runs, error, onErrorCalls

initVars == <<runs, error, onErrorCalls>>

sessionVars == <<loopVars, managerVars, initVars>>

vars == <<canvasVars, hookVars, sessionVars>>

\* ---- pixels and canvases -------------------------------------------------

T == <<"T">>
Black == <<"black">>

Pos(w, h) == (1..w) \X (1..h)

Abs(n) == IF n < 0 THEN -n ELSE n

\* translucent pixels: reduced alpha, or the faded border a blur leaves
IsPart(p) == p[1] \in {"part", "blur"}

\* source-over of one pixel s onto d; a pixel drawn at reduced alpha over its own
\* opaque colour leaves it as it is
Over(s, d) ==
    IF s = T THEN d
    ELSE IF IsPart(s)
         THEN IF d = T THEN s
              ELSE IF IsPart(d) THEN <<"part", <<"over", s, d>>>>
              ELSE IF s = <<"part", d>> THEN d
              ELSE <<"over", s, d>>
         ELSE s

\* destination-out in place of destination-in
DestOut(p, a) ==
    IF a = 0 THEN p
    ELSE IF a = 2 \/ p = T THEN T
    ELSE <<"part", p>>

\* destination-in: keep the destination p where the source alpha a says so
\* (a = 0 none, 1 partly, 2 fully)
DestIn(p, a) ==
    IF a = 2 THEN p
    ELSE IF a = 0 \/ p = T THEN T
    ELSE <<"part", p>>

\* a canvas right after its width or height was assigned: cleared, context reset
Blank(w, h) ==
    [width |-> w, height |-> h, px |-> [p \in Pos(w, h) |-> T], flip |-> FALSE]

\* source columns (rows) that destination column x overlaps when sw is scaled to w
Cover(x, sw, w) == {s \in 1..sw : (s - 1) * w < x * sw /\ s * w > (x - 1) * sw}

Resample(S) == IF Cardinality(S) = 1 THEN CHOOSE p \in S : TRUE ELSE <<"mix", S>>

\* drawImage(src, 0, 0, W, H) as a layer over Pos(W, H), under the context's flip
ScaledLayer(src, W, H, flip) ==
    [p \in Pos(W, H) |->
        LET xx == IF flip THEN W + 1 - p[1] ELSE p[1]
        IN Resample({src.px[<<sx, sy>>] : sx \in Cover(xx, src.width, W),
                                          sy \in Cover(p[2], src.height, H)})]

\* drawImage(src, 0, 0) as a layer over Pos(W, H), under the context's flip
PlacedLayer(src, W, H, flip) ==
    [p \in Pos(W, H) |->
        LET xx == IF flip THEN W + 1 - p[1] ELSE p[1]
        IN IF xx <= src.width /\ p[2] <= src.height THEN src.px[<<xx, p[2]>>] ELSE T]

\* ctx.filter = blur(..) applied to a layer, r in hundredths of a pixel: every
\* pixel takes in its non-transparent neighbours, and blurring nothing but
\* transparency leaves transparency
BlurLayer(layer, W, H, r) ==
    [p \in Pos(W, H) |->
        IF r = 0 \/ (\A q \in Pos(W, H) : layer[q] = T) THEN layer[p]
        ELSE <<"blur", r, layer[p],
               {<<Abs(q[1] - p[1]), Abs(q[2] - p[2]), layer[q]>>
                    : q \in {q \in Pos(W, H) \ {p} : layer[q] # T}}>>]

\* a CSS colour filter (brightness, contrast, saturate, ..) on one pixel: the
\* colour changes, the alpha stays
CssFilter(tag, v, neutral, p) ==
    IF p = T \/ v = neutral THEN p
    ELSE IF p[1] = "part" THEN <<"part", <<tag, v, p[2]>>>>
    ELSE IF IsPart(p) THEN <<"part", <<tag, v, p>>>>
    ELSE <<tag, v, p>>

DrawOver(px, layer) == [p \in DOMAIN px |-> Over(layer[p], px[p])]

\* ---- image sources -------------------------------------------------------

\* `x || y` of JavaScript on numbers
OrElse(a, b) == IF a # 0 THEN a ELSE b

IntrinsicW(f) == IF f.kind = "video" THEN f.videoWidth ELSE f.width
IntrinsicH(f) == IF f.kind = "video" THEN f.videoHeight ELSE f.height

\* what drawImage reads from the input frame
FrameImg(f) ==
    [width |-> IntrinsicW(f), height |-> IntrinsicH(f),
     px |-> [p \in Pos(IntrinsicW(f), IntrinsicH(f)) |-> <<"f", p[1], p[2]>>]]

\* an <img> or <video> without decoded pixels is silently not drawn
Drawable(f) == IntrinsicW(f) > 0 /\ IntrinsicH(f) > 0

BgImg(b) ==
    [width |-> b.width, height |-> b.height,
     px |-> [p \in Pos(b.width, b.height) |-> <<"bg", p[1], p[2]>>]]

\* alpha of the mask scaled to W x H
ScaledAlpha(m, W, H) ==
    [p \in Pos(W, H) |->
        LET S == {m.px[<<sx, sy>>] : sx \in Cover(p[1], m.width, W),
                                     sy \in Cover(p[2], m.height, H)}
        IN IF Cardinality(S) = 1 THEN CHOOSE a \in S : TRUE ELSE 1]

MaskEmpty(m) == m.width = 0 \/ m.height = 0

\* ---- inputs of the model -------------------------------------------------

\* the canvases of the model have one row of pixels, or none
Dims == (0..MaxW) \X {0, 1}

\* an <img> (its own width/height) or a <video> without width/height attributes
\* (native size in videoWidth/videoHeight, zero until the metadata has loaded)
Frames ==
    {[kind |-> "image", width |-> d[1], height |-> d[2], videoWidth |-> 0, videoHeight |-> 0]
        : d \in Dims}
    \cup
    {[kind |-> "video", width |-> 0, height |-> 0, videoWidth |-> d[1], videoHeight |-> d[2]]
        : d \in Dims}

\* alpha per mask pixel: 0 background, 2 foreground, 1 the gradient of an edge.
\* All-background, all-foreground, all-edge, and the first pixel differing from
\* the rest.
Alphas(w, h) ==
    {[p \in Pos(w, h) |-> a] : a \in {0, 1, 2}}
    \cup {[p \in Pos(w, h) |-> IF p = <<1, 1>> THEN a ELSE 2 - a] : a \in {0, 2}}

\* a mask of the frame's size, or an empty one: an <img> without pixels (silently
\* not drawn) or a closed ImageBitmap (drawImage throws InvalidStateError)
Masks(f) ==
    IF Drawable(f)
    THEN {[kind |-> "bitmap", width |-> IntrinsicW(f), height |-> IntrinsicH(f), px |-> a]
            : a \in Alphas(IntrinsicW(f), IntrinsicH(f))}
         \cup {[kind |-> k, width |-> 0, height |-> 0, px |-> <<>>] : k \in {"image", "bitmap"}}
    ELSE {[kind |-> "bitmap", width |-> IntrinsicW(f), height |-> IntrinsicH(f), px |-> <<>>]}

None == [width |-> 0, height |-> 0]

\* options.backgroundImage: absent, or an image the preloader has loaded
Backgrounds == {None, [width |-> MaxW, height |-> 1]}

BlurRadii == {NoNumber, 5}

Options ==
    [mode : {"none", "blur", "image"}, blurRadius : BlurRadii,
     backgroundImage : Backgrounds, mirror : BOOLEAN, debugMode : {Undef, "temp"}]

\* only the fields a mode reads vary, and a frame without pixels is tried in every
\* mode and mirroring only
Relevant(f, o) ==
    /\ o.mode # "blur" => o.blurRadius = NoNumber
    /\ o.mode # "image" => o.backgroundImage = None
    /\ o.mode = "none" => o.debugMode = Undef
    /\ ~Drawable(f) => o.blurRadius = NoNumber /\ o.debugMode = Undef

OptionsFor(f) == {o \in Options : Relevant(f, o)}

\* ---- src/utils/compositor.ts : compositeFrame -----------------------------

\* options.blurRadius ?? 10, in hundredths of a pixel
BlurRadiusOf(opts) == IF opts.blurRadius = NoNumber THEN 100 * 10 ELSE 100 * opts.blurRadius

\* step 1 without the black fallback: nothing is drawn when no image is loaded
BackgroundNoFallback(o, f, opts) ==
    LET W == o.width
        H == o.height
    IN IF opts.mode = "blur"
       THEN IF Drawable(f)
            THEN DrawOver(o.px, BlurLayer(ScaledLayer(FrameImg(f), W, H, o.flip), W, H,
                                         BlurRadiusOf(opts)))
            ELSE o.px
       ELSE IF opts.mode = "image" /\ opts.backgroundImage # None
       THEN DrawOver(o.px, ScaledLayer(BgImg(opts.backgroundImage), W, H, o.flip))
       ELSE o.px

\* step 1, the background on the resized output canvas
Background(o, f, opts) ==
    LET W == o.width
        H == o.height
    IN IF opts.mode = "blur"
       THEN IF Drawable(f)
            THEN DrawOver(o.px, BlurLayer(ScaledLayer(FrameImg(f), W, H, o.flip), W, H,
                                         BlurRadiusOf(opts)))
            ELSE o.px
       ELSE IF opts.mode = "image" /\ opts.backgroundImage # None
       THEN DrawOver(o.px, ScaledLayer(BgImg(opts.backgroundImage), W, H, o.flip))
       ELSE [p \in Pos(W, H) |-> Black]

\* step 2, the frame on a fresh canvas of the output's size, before the mask
TempFrame(W, H, f) ==
    [Blank(W, H) EXCEPT !.px = IF Drawable(f)
                               THEN ScaledLayer(FrameImg(f), W, H, FALSE)
                               ELSE @]

\* ... and after the mask was drawn with destination-in
TempMasked(t, m) ==
    IF MaskEmpty(m) THEN t
    ELSE [t EXCEPT !.px = [p \in DOMAIN t.px |-> DestIn(t.px[p], ScaledAlpha(m, t.width, t.height)[p])]]

\* the validation with `&&` in place of `||`: only a frame without width and
\* without height is skipped
ValidateBothZero(ok, f) ==
    IF OrElse(f.width, f.videoWidth) = 0 /\ OrElse(f.height, f.videoHeight) = 0 THEN "skipped"
    ELSE IF ~ok THEN "No 2D context on output canvas"
    ELSE "go"

\* the validation without the check of the 2D context
ValidateNoContextCheck(ok, f) ==
    IF OrElse(f.width, f.videoWidth) = 0 \/ OrElse(f.height, f.videoHeight) = 0 THEN "skipped"
    ELSE "go"

\* the validation both functions start with: "skipped" for a frame without
\* size, then the error of a surface without 2D context, else "go"
Validate(ok, f) ==
    LET inputWidth == OrElse(f.width, f.videoWidth)
        inputHeight == OrElse(f.height, f.videoHeight)
    IN IF inputWidth = 0 \/ inputHeight = 0 THEN "skipped"
       ELSE IF ~ok THEN "No 2D context on output canvas"
       ELSE "go"

\* outputCanvas.width = inputImage.width || outputCanvas.width (and height)
Resized(o, f) == Blank(OrElse(f.width, o.width), OrElse(f.height, o.height))

\* mode 'none' with the drawImage call left out
DrawNothing(c, f) == c

\* mode 'none': ctx.drawImage(inputImage, 0, 0, width, height) on the resized canvas
DrawFrame(c, f) ==
    [c EXCEPT !.px = IF Drawable(f)
                     THEN ScaledLayer(FrameImg(f), c.width, c.height, c.flip)
                     ELSE @]

\* whether the call reaches document.createElement('canvas') of step 2
createsTempCanvas(ok, f, opts) == Validate(ok, f) = "go" /\ opts.mode # "none"

compositeFrame(o, ok, f, m, opts) ==
    LET sized == [Resized(o, f) EXCEPT !.flip = opts.mirror]
        W == sized.width
        H == sized.height
        bg == [sized EXCEPT !.px = Background(sized, f, opts)]
        temp == TempMasked(TempFrame(W, H, f), m)
    IN IF Validate(ok, f) # "go" THEN [out |-> o, res |-> Validate(ok, f)]
       ELSE IF opts.mode = "none"
       THEN [out |-> [DrawFrame(sized, f) EXCEPT !.flip = FALSE], res |-> "done"]
       ELSE IF MaskEmpty(m) /\ m.kind = "bitmap"
       THEN [out |-> bg, res |-> "InvalidStateError"]
       ELSE IF W = 0 \/ H = 0
       THEN [out |-> bg, res |-> "InvalidStateError"]
       ELSE IF opts.debugMode = "temp"
       THEN [out |-> [bg EXCEPT !.px = PlacedLayer(temp, W, H, opts.mirror), !.flip = FALSE],
             res |-> "done"]
       ELSE [out |-> [bg EXCEPT !.px = DrawOver(bg.px, PlacedLayer(temp, W, H, opts.mirror)),
                                !.flip = FALSE],
             res |-> "done"]

\* ---- src/utils/faceFilters.ts : BeautyFilterRenderer -----------------------
\* Coordinates are in twentieths of a pixel: pixel <<x, y>> has its centre at
\* <<20x - 10, 20y - 10>>.  Intensities are in tenths.  A landmark list is
\* [length, pts]: pts holds the points at the (0-based) indices the filters read.

Cx(p) == 20 * p[1] - 10
Cy(p) == 20 * p[2] - 10

\* pixel centre inside the ellipse with centre <<cx, cy>> and radii rx, ry
InEllipse(p, cx, cy, rx, ry) ==
    /\ rx > 0 /\ ry > 0
    /\ IF rx = ry
       THEN (Cx(p) - cx) * (Cx(p) - cx) + (Cy(p) - cy) * (Cy(p) - cy) <= rx * rx
       ELSE (Cx(p) - cx) * (Cx(p) - cx) * ry * ry + (Cy(p) - cy) * (Cy(p) - cy) * rx * rx
                <= rx * rx * ry * ry

\* pixel centre inside the rectangle x, y, w, h
InRect(p, x, y, w, h) == Cx(p) > x /\ Cx(p) < x + w /\ Cy(p) > y /\ Cy(p) < y + h

\* a CSS filter function with argument v, the canvas drawn over the pixel
\* itself: an opaque pixel is replaced (v = neutral leaves it as it is), a
\* translucent one is drawn source-over itself
Filtered(tag, v, neutral, p) ==
    IF p = T THEN p
    ELSE IF IsPart(p) THEN Over(CssFilter(tag, v, neutral, p), p)
    ELSE IF v = neutral THEN p
    ELSE <<tag, v, p>>

\* fill with a colour at globalAlpha a (in thousandths)
Filled(color, a, p) ==
    IF a <= 0 THEN p
    ELSE IF a >= 1000 THEN <<"fill", color, 1000>>
    ELSE Over(<<"part", <<"fill", color, a>>>>, p)

IntensityOf(filter) == IF filter.intensity = NoNumber THEN 5 ELSE filter.intensity

\* landmarks[i], <<>> when the list has no such element
NoPoint == <<>>

\* the same reading a point at the origin where the sequence has none
AtOrOrigin(landmarks, i) == IF i \in DOMAIN landmarks.pts THEN landmarks.pts[i] ELSE <<0, 0>>

At(landmarks, i) == IF i \in DOMAIN landmarks.pts THEN landmarks.pts[i] ELSE NoPoint

\* the bounding-box kinds call ctx.ellipse with the box's half sizes: a negative
\* radius raises IndexSizeError
Throws(detection, filter) ==
    /\ filter.type \in {"skin-smoothing", "face-contouring", "brightening"}
    /\ (detection.boundingBox.width < 0 \/ detection.boundingBox.height < 0)

faceSkinSmoothing(c, detection, intensity, options) ==
    LET b == detection.boundingBox
        r == 10 * (IF options.blurRadius = NoNumber THEN 3 ELSE options.blurRadius) * intensity
        src == {q \in DOMAIN c.px : InRect(q, 20 * b.x, 20 * b.y, 20 * b.width, 20 * b.height)}
        region == {q \in src : InEllipse(q, 20 * b.x + 10 * b.width, 20 * b.y + 10 * b.height,
                                         10 * b.width, 10 * b.height)}
    IN [c EXCEPT !.px = [p \in DOMAIN c.px |->
            IF p \notin region \/ (\A q \in src : c.px[q] = T) THEN c.px[p]
            ELSE IF r = 0 THEN Filtered("blur", 0, 0, c.px[p])
            ELSE Over(<<"blur", r, c.px[p],
                        {<<Abs(q[1] - p[1]), Abs(q[2] - p[2]), c.px[q]>>
                            : q \in {q \in src \ {p} : c.px[q] # T}}>>,
                      c.px[p])]]

enhanceEyeRegion(c, eyeCenter, brightness, contrast) ==
    LET eyeSize == 30
        region == {q \in DOMAIN c.px :
                      /\ InRect(q, 20 * (eyeCenter[1] - eyeSize), 20 * (eyeCenter[2] - eyeSize),
                                20 * 2 * eyeSize, 20 * 2 * eyeSize)
                      /\ InEllipse(q, 20 * eyeCenter[1], 20 * eyeCenter[2],
                                   20 * eyeSize, 20 * eyeSize)}
    IN [c EXCEPT !.px = [p \in DOMAIN c.px |->
            IF p \in region
            THEN Filtered("brightness-contrast", <<brightness, contrast>>, <<100, 100>>, c.px[p])
            ELSE c.px[p]]]

faceEyeEnhancement(c, detection, intensity, options) ==
    LET landmarks == detection.landmarks
        brightness == 12 * intensity
        contrast == 11 * intensity
        leftEye == At(landmarks, 33)
        rightEye == At(landmarks, 133)
    IN IF landmarks.length < 133 THEN c
       ELSE IF leftEye # NoPoint /\ rightEye # NoPoint
       THEN enhanceEyeRegion(enhanceEyeRegion(c, leftEye, brightness, contrast),
                             rightEye, brightness, contrast)
       ELSE c

faceLipEnhancement(c, detection, intensity, options) ==
    LET landmarks == detection.landmarks
        mouthLeft == At(landmarks, 13)
        mouthRight == At(landmarks, 14)
        lipWidth == Abs(mouthRight[1] - mouthLeft[1])
    IN IF landmarks.length < 14 THEN c
       ELSE IF mouthLeft # NoPoint /\ mouthRight # NoPoint
       THEN [c EXCEPT !.px = [p \in DOMAIN c.px |->
                IF InEllipse(p, 10 * (mouthLeft[1] + mouthRight[1]),
                             10 * (mouthLeft[2] + mouthRight[2]), 10 * lipWidth, 6 * lipWidth)
                THEN Filled("#ff6b9d", intensity * 30, c.px[p])
                ELSE c.px[p]]]
       ELSE c

faceContouring(c, detection, intensity, options) ==
    LET b == detection.boundingBox
        centerX == 20 * b.x + 10 * b.width
        centerY == 20 * b.y + 10 * b.height
        left == {q \in DOMAIN c.px :
                    InEllipse(q, centerX - 6 * b.width, centerY, 4 * b.width, 8 * b.height)}
        right == {q \in DOMAIN c.px :
                    InEllipse(q, centerX + 6 * b.width, centerY, 4 * b.width, 8 * b.height)}
        shade(in, p) == IF in THEN Filled("#000", intensity * 20, p) ELSE p
    IN [c EXCEPT !.px = [p \in DOMAIN c.px |->
            shade(p \in right, shade(p \in left, c.px[p]))]]

faceBlush(c, detection, intensity, options) ==
    LET landmarks == detection.landmarks
        opacity == (IF options.blushOpacity = NoNumber THEN 3 ELSE options.blushOpacity)
                   * intensity * 10
        leftCheek == At(landmarks, 123)
        rightCheek == At(landmarks, 352)
        dab(cheek, p, q) ==
            IF InEllipse(p, 20 * cheek[1], 20 * cheek[2], 20 * 25, 20 * 25)
            THEN Filled("#ff9999", opacity, q) ELSE q
    IN IF landmarks.length < 352 THEN c
       ELSE IF leftCheek # NoPoint /\ rightCheek # NoPoint
       THEN [c EXCEPT !.px = [p \in DOMAIN c.px |->
                dab(rightCheek, p, dab(leftCheek, p, c.px[p]))]]
       ELSE c

faceBrightening(c, detection, intensity, options) ==
    LET b == detection.boundingBox
        brightness == 1000 + intensity * 30
        region == {q \in DOMAIN c.px :
                      /\ InRect(q, 20 * b.x, 20 * b.y, 20 * b.width, 20 * b.height)
                      /\ InEllipse(q, 20 * b.x + 10 * b.width, 20 * b.y + 10 * b.height,
                                   10 * b.width, 10 * b.height)}
    IN [c EXCEPT !.px = [p \in DOMAIN c.px |->
            IF p \in region THEN Filtered("brightness", brightness, 1000, c.px[p])
            ELSE c.px[p]]]

\* BeautyFilterRenderer.applyBeautyFilter: one filter on one detection
faceApplyBeautyFilter(c, detection, filter) ==
    LET intensity == IntensityOf(filter)
    IN CASE filter.type = "skin-smoothing" -> faceSkinSmoothing(c, detection, intensity, filter.options)
         [] filter.type = "eye-enhancement" -> faceEyeEnhancement(c, detection, intensity, filter.options)
         [] filter.type = "lip-enhancement" -> faceLipEnhancement(c, detection, intensity, filter.options)
         [] filter.type = "face-contouring" -> faceContouring(c, detection, intensity, filter.options)
         [] filter.type = "blush" -> faceBlush(c, detection, intensity, filter.options)
         [] filter.type = "brightening" -> faceBrightening(c, detection, intensity, filter.options)
         [] OTHER -> c

\* the pairs (detection index, filter index) applyBeautyFilters visits, in order
\* the same pairs visited filters-outer / detections-inner
RECURSIVE VisitsFiltersOuter(_, _, _, _)
VisitsFiltersOuter(detections, filters, i, j) ==
    IF j > Len(filters) THEN <<>>
    ELSE IF i > Len(detections) THEN VisitsFiltersOuter(detections, filters, 1, j + 1)
    ELSE IF detections[i].state = 1 /\ filters[j].enabled # "false"
         THEN <<<<i, j>>>> \o VisitsFiltersOuter(detections, filters, i + 1, j)
         ELSE VisitsFiltersOuter(detections, filters, i + 1, j)

RECURSIVE Visits(_, _, _, _)
Visits(detections, filters, i, j) ==
    IF i > Len(detections) THEN <<>>
    ELSE IF j > Len(filters) THEN Visits(detections, filters, i + 1, 1)
    ELSE IF detections[i].state = 1 /\ filters[j].enabled # "false"
         THEN <<<<i, j>>>> \o Visits(detections, filters, i, j + 1)
         ELSE Visits(detections, filters, i, j + 1)

\* BeautyFilterRenderer.applyBeautyFilters: [canvas, res, applied]; stops at the
\* first filter that throws
RECURSIVE applyVisits(_, _, _, _, _)
applyVisits(c, detections, filters, visits, k) ==
    IF k > Len(visits) THEN [canvas |-> c, res |-> "done", applied |-> visits]
    ELSE LET d == detections[visits[k][1]]
             f == filters[visits[k][2]]
         IN IF Throws(d, f)
            THEN [canvas |-> c, res |-> "IndexSizeError", applied |-> SubSeq(visits, 1, k - 1)]
            ELSE applyVisits(faceApplyBeautyFilter(c, d, f), detections, filters, visits, k + 1)

applyBeautyFilters(c, detections, filters) ==
    applyVisits(c, detections, filters, Visits(detections, filters, 1, 1), 1)

\* ---- src/utils/compositor.ts : compositeFrameWithBeautyFilters ------------

compositeFrameWithBeautyFilters(o, ok, f, m, detections, filters, opts) ==
    LET sized == [Resized(o, f) EXCEPT !.flip = opts.mirror]
        W == sized.width
        H == sized.height
        bg == [sized EXCEPT !.px =
                 IF opts.mode = "none"
                 THEN IF Drawable(f) THEN ScaledLayer(FrameImg(f), W, H, opts.mirror) ELSE @
                 ELSE Background(sized, f, opts)]
        temp == TempMasked(TempFrame(W, H, f), m)
        withFilters == detections.given /\ filters.given /\ Len(filters.list) > 0
        face == IF withFilters THEN applyBeautyFilters(temp, detections.list, filters.list)
                ELSE [canvas |-> temp, res |-> "done", applied |-> <<>>]
    IN IF Validate(ok, f) # "go" THEN [out |-> o, res |-> Validate(ok, f)]
       ELSE IF MaskEmpty(m) /\ m.kind = "bitmap"
       THEN [out |-> bg, res |-> "InvalidStateError"]
       ELSE IF face.res # "done" THEN [out |-> bg, res |-> face.res]
       ELSE IF W = 0 \/ H = 0
       THEN [out |-> bg, res |-> "InvalidStateError"]
       ELSE [out |-> [bg EXCEPT !.px = DrawOver(bg.px, PlacedLayer(face.canvas, W, H, opts.mirror)),
                                !.flip = FALSE],
             res |-> "done"]

\* ---- src/utils/beauty-filters.ts : applyBeautyFilter ----------------------
\* The two module-level scratch canvases are tempCanvas and originalCanvas.
\* Every operator takes and returns [canvas, temp, orig, res].

\* a blend mode other than source-over, at globalAlpha a (in thousandths)
Blend(mode, a, s, d) ==
    IF s = T \/ a = 0 THEN d
    ELSE IF d = T THEN <<"part", <<"blend", mode, a, s>>>>
    ELSE <<"blend", mode, a, s, d>>

\* a radial gradient centred on the canvas, transparent from the outer radius
\* on; the outer radius is num / den of the width, distances in half pixels
Gradient(kind, intensity, c, p, num, den) ==
    LET dx == Abs(2 * p[1] - 1 - c.width)
        dy == Abs(2 * p[2] - 1 - c.height)
    IN IF den * den * (dx * dx + dy * dy) < 4 * num * num * c.width * c.width
       THEN <<"part", <<"gradient", kind, intensity, dx, dy>>>>
       ELSE T

\* if (tempCanvas.width !== canvas.width || tempCanvas.height !== canvas.height)
Mismatch(temp, c) == temp.width # c.width \/ temp.height # c.height

\* original, blurred copy, and the copy blended over the original: the body
\* shared by applySkinSmoothing and applySharpen
BlurAndBlend(st, radius, mode, alpha) ==
    LET c == st.canvas
        resize == Mismatch(st.temp, c)
        temp0 == IF resize THEN Blank(c.width, c.height) ELSE st.temp
        orig0 == IF resize THEN Blank(c.width, c.height) ELSE st.orig
        orig == [orig0 EXCEPT !.px = DrawOver(@, PlacedLayer(c, orig0.width, orig0.height, FALSE))]
        blurred == [orig EXCEPT !.px = BlurLayer(orig.px, orig.width, orig.height, radius)]
        temp == [temp0 EXCEPT !.px = DrawOver(@, PlacedLayer(blurred, temp0.width, temp0.height, FALSE))]
        base == PlacedLayer(orig, c.width, c.height, c.flip)
        top == PlacedLayer(temp, c.width, c.height, c.flip)
    IN [canvas |-> [c EXCEPT !.px = [p \in DOMAIN c.px |-> Blend(mode, alpha, top[p], base[p])]],
        temp |-> temp, orig |-> orig, res |-> "done"]

\* a CSS filter drawn into tempCanvas and copied back: the body shared by
\* applyBrightnessContrast and applyColorBoost
FilterAndCopy(st, tag, v, neutral) ==
    LET c == st.canvas
        temp0 == IF Mismatch(st.temp, c) THEN Blank(c.width, c.height) ELSE st.temp
        drawn == PlacedLayer(c, temp0.width, temp0.height, FALSE)
        temp == [temp0 EXCEPT !.px = DrawOver(@, [p \in DOMAIN drawn |->
                                                    CssFilter(tag, v, neutral, drawn[p])])]
    IN [st EXCEPT !.canvas = [c EXCEPT !.px = PlacedLayer(temp, c.width, c.height, c.flip)],
                  !.temp = temp]

Min(a, b) == IF a < b THEN a ELSE b

MAX_BLUR_RADIUS == 20

\* MAX_BLEND_ALPHA = 0.7, in tenths
MAX_BLEND_ALPHA == 7

applySkinSmoothing(st, intensity) ==
    LET blurRadius == Min(100 * MAX_BLUR_RADIUS, 10 * intensity * MAX_BLUR_RADIUS)
    IN IF blurRadius <= 0 THEN st
       ELSE BlurAndBlend(st, blurRadius, "soft-light", 10 * intensity * MAX_BLEND_ALPHA)

applyBrightnessContrast(st, intensity) ==
    FilterAndCopy(st, "brightness-contrast", <<1000 + 20 * intensity, 1000 + 30 * intensity>>,
                  <<1000, 1000>>)

applyHighlight(st, intensity) ==
    LET c == st.canvas
    IN [st EXCEPT !.canvas.px = [p \in DOMAIN c.px |->
            Over(Gradient("highlight", intensity, c, p, 2, 3),
                 c.px[p])]]

applySoftGlow(st, intensity) ==
    LET c == st.canvas
    IN [st EXCEPT !.canvas.px = [p \in DOMAIN c.px |->
            Blend("lighter", 15 * intensity,
                  Gradient("soft-glow", 10, c, p, 1, 1), c.px[p])]]

applySharpen(st, intensity) ==
    BlurAndBlend(st, 50 + 15 * intensity, "overlay", 30 * intensity)

applyColorBoost(st, intensity) ==
    FilterAndCopy(st, "saturate-hue",
                  <<1000 + 50 * intensity, IF intensity > 6 THEN 0 - 2 ELSE 0>>, <<1000, 0>>)

GlobalTypes ==
    {"skin-smoothing", "brightness-contrast", "highlight", "soft-glow", "sharpen", "color-boost"}

\* applyBeautyFilter(canvas, options); ok: the canvas gives a 2D context
\* the same without the early return on a missing or non-positive intensity
applyBeautyFilterUnguarded(st, ok, options) ==
    IF options.type = "none" THEN st
    ELSE IF ~ok THEN [st EXCEPT !.res = "No 2D context available on canvas"]
    ELSE CASE options.type = "skin-smoothing" -> applySkinSmoothing(st, options.intensity)
           [] options.type = "brightness-contrast" -> applyBrightnessContrast(st, options.intensity)
           [] options.type = "highlight" -> applyHighlight(st, options.intensity)
           [] options.type = "soft-glow" -> applySoftGlow(st, options.intensity)
           [] options.type = "sharpen" -> applySharpen(st, options.intensity)
           [] options.type = "color-boost" -> applyColorBoost(st, options.intensity)
           [] OTHER -> st

applyBeautyFilter(st, ok, options) ==
    IF options.type = "none" \/ options.intensity = NoNumber \/ options.intensity <= 0 THEN st
    ELSE IF ~ok THEN [st EXCEPT !.res = "No 2D context available on canvas"]
    ELSE CASE options.type = "skin-smoothing" -> applySkinSmoothing(st, options.intensity)
           [] options.type = "brightness-contrast" -> applyBrightnessContrast(st, options.intensity)
           [] options.type = "highlight" -> applyHighlight(st, options.intensity)
           [] options.type = "soft-glow" -> applySoftGlow(st, options.intensity)
           [] options.type = "sharpen" -> applySharpen(st, options.intensity)
           [] options.type = "color-boost" -> applyColorBoost(st, options.intensity)
           [] OTHER -> st

\* ---- compositor variant with options.beautyFilter : compositeFrame ---------

NoFilter == [type |-> Undef, intensity |-> NoNumber]

\* the beauty step of the variant: applied unless the descriptor is absent or of
\* type 'none', with intensity || 0.5, errors caught and logged
BeautyStep(st, beautyFilter) ==
    IF beautyFilter # NoFilter /\ beautyFilter.type # "none"
    THEN LET r == applyBeautyFilter(st, TRUE,
                     [type |-> beautyFilter.type,
                      intensity |-> IF beautyFilter.intensity \in {NoNumber, 0} THEN 5
                                    ELSE beautyFilter.intensity])
         IN [r EXCEPT !.res = "done"]
    ELSE st

\* [out, temp, orig, res]: the output surface, the two scratch canvases of
\* beauty-filters.ts and the outcome
compositeFrameBeauty(o, ok, scratchTemp, scratchOrig, f, m, opts) ==
    LET sized == [Resized(o, f) EXCEPT !.flip = opts.mirror]
        W == sized.width
        H == sized.height
        bg == [sized EXCEPT !.px = Background(sized, f, opts)]
        temp == TempMasked(TempFrame(W, H, f), m)
        state(c, res) == [canvas |-> c, temp |-> scratchTemp, orig |-> scratchOrig, res |-> res]
        unflip(st) == [st EXCEPT !.canvas.flip = FALSE]
    IN IF ~ok THEN state(o, "No 2D context on output canvas")
       ELSE IF opts.mode = "none"
       THEN unflip(BeautyStep(state(DrawFrame(sized, f), "done"), opts.beautyFilter))
       ELSE IF MaskEmpty(m) /\ m.kind = "bitmap" THEN state(bg, "InvalidStateError")
       ELSE IF W = 0 \/ H = 0 THEN state(bg, "InvalidStateError")
       ELSE IF opts.debugMode = "temp"
       THEN state([bg EXCEPT !.px = PlacedLayer(temp, W, H, opts.mirror), !.flip = FALSE], "done")
       ELSE unflip(BeautyStep(
                state([bg EXCEPT !.px = DrawOver(bg.px, PlacedLayer(temp, W, H, opts.mirror))],
                      "done"),
                opts.beautyFilter))

\* the same with the beauty step ahead of the masked foreground
drawingStepsBeautyFirst(o, ok, f, m, opts) ==
    LET beauty == IF opts.beautyFilter # NoFilter /\ opts.beautyFilter.type # "none"
                  THEN <<"beauty">> ELSE <<>>
    IN IF ~ok THEN <<>>
       ELSE IF opts.mode = "none" THEN <<"frame">> \o beauty
       ELSE IF MaskEmpty(m) /\ m.kind = "bitmap" THEN <<"background">>
       ELSE IF Resized(o, f).width = 0 \/ Resized(o, f).height = 0 THEN <<"background">>
       ELSE IF opts.debugMode = "temp" THEN <<"background", "clear", "foreground">>
       ELSE <<"background">> \o beauty \o <<"foreground">>

\* the drawing steps of the variant on the output surface, in order: "frame" and
\* "background" for step 1, "foreground" for the masked frame, "clear" for the
\* clearRect of the debug view, "beauty" for the call of applyBeautyFilter
drawingSteps(o, ok, f, m, opts) ==
    LET beauty == IF opts.beautyFilter # NoFilter /\ opts.beautyFilter.type # "none"
                  THEN <<"beauty">> ELSE <<>>
    IN IF ~ok THEN <<>>
       ELSE IF opts.mode = "none" THEN <<"frame">> \o beauty
       ELSE IF MaskEmpty(m) /\ m.kind = "bitmap" THEN <<"background">>
       ELSE IF Resized(o, f).width = 0 \/ Resized(o, f).height = 0 THEN <<"background">>
       ELSE IF opts.debugMode = "temp" THEN <<"background", "clear", "foreground">>
       ELSE <<"background", "foreground">> \o beauty

\* an optional list argument: absent, or the list
Absent == [given |-> FALSE, list |-> <<>>]
Given(l) == [given |-> TRUE, list |-> l]

\* detections as JeelizManager delivers them (a box, no landmarks); one of them
\* with a box of negative extent
NoLandmarks == [length |-> 0, pts |-> <<>>]

Detection(st, w) ==
    [state |-> st, boundingBox |-> [x |-> 0, y |-> 0, width |-> w, height |-> 1],
     landmarks |-> NoLandmarks]

NoOptions == [blurRadius |-> NoNumber, blushOpacity |-> NoNumber]

FilterTypes ==
    {"skin-smoothing", "eye-enhancement", "lip-enhancement", "face-contouring", "blush",
     "brightening"}

Filter(t, i, e) == [type |-> t, intensity |-> i, enabled |-> e, options |-> NoOptions]

\* the (faceDetections, beautyFilters) pairs of the model
FaceInputs ==
    {<<Absent, Absent>>, <<Given(<<Detection(1, MaxW)>>), Given(<<>>)>>,
     <<Absent, Given(<<Filter("skin-smoothing", NoNumber, Undef)>>)>>}
    \cup {<<Given(<<Detection(1, w)>>), Given(<<Filter(t, NoNumber, Undef)>>)>>
            : w \in {MaxW, 0 - 1}, t \in {"skin-smoothing", "brightening", "blush"}}

\* ---- state machine -------------------------------------------------------
\* call is the invocation in progress: "pending" once the caller has passed its
\* arguments, "returned" (with res, the outcome) once the function has run, and
\* Idle between two invocations.

Idle == [phase |-> "idle"]

\* useState(null), an absent defaultMode, an absent src, image and error
Null == [null |-> TRUE]
NoMode == ""
NoSrc == ""
NoImage == <<>>
NoError == <<>>

\* no compositing loop is running, nothing was composited
NoLoop == [kind |-> "none"]
NoComposite == [fn |-> "none"]

\* BG_CHANGE_DEBOUNCE_MS, in units of 100 ms
BG_CHANGE_DEBOUNCE == 3

\* ---- src/utils/webcam.ts : WebcamManager ---------------------------------------

NoStream == 0

WebcamError(type, message) == <<"WebcamError", type, message>>

\* new WebcamManager(): inflight counts the getUserMedia requests not yet answered,
\* acquired the streams handed out, live the streams whose tracks are not stopped
NewWebcamManager ==
    [stream |-> NoStream, status |-> "idle", error |-> NoError, inflight |-> 0,
     acquired |-> 0, live |-> {}]

\* what getUserMedia rejects with
DeviceErrors ==
    {[name |-> "NotAllowedError", message |-> "denied"],
     [name |-> "NotFoundError", message |-> "no device"],
     [name |-> "AbortError", message |-> "aborted"],
     [name |-> "AbortError", message |-> ""]}

\* the same with every device error taken for an unknown one
ToUnknownWebcamError(err) ==
    WebcamError("unknown", IF err.message # "" THEN err.message ELSE "Unknown webcam error.")

\* the catch block of start(): the WebcamError for a device error
ToWebcamError(err) ==
    IF err.name = "NotAllowedError" THEN WebcamError("permission-denied", "Camera permission denied.")
    ELSE IF err.name = "NotFoundError" THEN WebcamError("not-found", "No camera found.")
    ELSE WebcamError("unknown", IF err.message # "" THEN err.message ELSE "Unknown webcam error.")

\* start() up to its await
startCalled(w) ==
    [w EXCEPT !.status = "loading", !.error = NoError, !.inflight = @ + 1]

\* start() after getUserMedia resolved with a new stream
startResolved(w) ==
    [w EXCEPT !.stream = w.acquired + 1, !.status = "ready", !.inflight = @ - 1,
              !.acquired = @ + 1, !.live = @ \cup {w.acquired + 1}]

\* start() after getUserMedia rejected with err
startRejected(w, err) ==
    [w EXCEPT !.error = ToWebcamError(err), !.status = "error", !.inflight = @ - 1]

\* the same without stopping the tracks
stopKeepsTracks(w) ==
    IF w.stream # NoStream
    THEN [w EXCEPT !.stream = NoStream, !.status = "idle"]
    ELSE w

stop(w) ==
    IF w.stream # NoStream
    THEN [w EXCEPT !.live = @ \ {w.stream}, !.stream = NoStream, !.status = "idle"]
    ELSE w

\* ---- src/mediapipe/loader.ts : MediaPipeLoader -----------------------------------

\* the SelfieSegmentation instance: none, or one with the model it was last set to
NoInstance == [made |-> FALSE, model |-> NoNumber]
NewInstance == [made |-> TRUE, model |-> NoNumber]

Error(message) == <<"Error", message>>

\* new MediaPipeLoader(options): loads counts the calls of load(), inflight those
\* waiting for the script, succeeded whether one of them completed, requested the
\* model of the last setModelSelection call, outcome how the last load() settled
NewLoader(modelSelection) ==
    [selfieSegmentation |-> NoInstance, isLoaded |-> FALSE, loadError |-> NoError,
     modelSelection |-> modelSelection, loads |-> 0, inflight |-> 0, succeeded |-> FALSE,
     requested |-> NoNumber, outcome |-> <<"none">>]

\* model || 0
OrZero(model) == IF model = NoNumber THEN 0 ELSE model

setModelSelection(l, model) ==
    IF l.selfieSegmentation.made
    THEN [l EXCEPT !.selfieSegmentation.model = model]
    ELSE l

\* load() from the constructor call of SelfieSegmentation on
loadCompletes(l) ==
    [setModelSelection([l EXCEPT !.selfieSegmentation = NewInstance], OrZero(l.modelSelection))
        EXCEPT !.isLoaded = TRUE, !.succeeded = TRUE, !.outcome = <<"resolved">>]

\* the catch block of load()
loadFails(l, err) ==
    [l EXCEPT !.loadError = err, !.outcome = <<"rejected", err>>]

\* load(): returns at once when loaded, completes at once when the page has
\* SelfieSegmentation, else waits for the script
loadCalled(l, present) ==
    IF l.isLoaded THEN [l EXCEPT !.loads = @ + 1, !.outcome = <<"resolved">>]
    ELSE IF present THEN loadCompletes([l EXCEPT !.loads = @ + 1])
    ELSE [l EXCEPT !.loads = @ + 1, !.inflight = @ + 1]

\* the same without the isLoaded check
getInstanceUnguarded(l) == <<"return", l.selfieSegmentation>>

getInstance(l) ==
    IF ~l.isLoaded THEN <<"throw", "MediaPipe not loaded">>
    ELSE <<"return", l.selfieSegmentation>>

\* new JeelizManager(options): delivered counts the callbacks of the detector,
\* processed tells whether the last one was passed on
NewJeelizManager(skip) ==
    [frameSkip |-> skip, frameCount |-> 0, delivered |-> 0, processed |-> FALSE]

\* the same without skipping
everyFrame(frameCount, skip) == 0

\* frameCount = (frameCount + 1) % frameSkip
nextFrameCount(frameCount, skip) == (frameCount + 1) % skip

\* frameSkip || 1
OrOne(skip) == IF skip = NoNumber \/ skip = 0 THEN 1 ELSE skip

\* ---- JeelizManager used on its own (unnamed/part_008) -----------------------------

\* maxAttempts of waitForJeeliz, the neural network paths init tries, the canvas
\* size convertJeelizState assumes
maxAttempts == 50
nnPaths == 4
canvasWidth == 640
canvasHeight == 480

JeelizError(type, message) == <<"JeelizError", type, message>>

\* new JeelizManager(options, callbacks). library is what the page has ("none",
\* "JEELIZFACEFILTER" or "other" for one of the alternative names); phase is where
\* a call of init() stands; inits, libraryInits, onErrorCalls, onReadyCalls and
\* onTrackCalls count calls; callbacks counts what the library called back;
\* destroyed tells that destroy() was the last call, afterDestroy counts the
\* consumer callbacks made since; thresholds and confidences are in tenths
NewManager(skip, threshold) ==
    [status |-> "loading", error |-> NoError, isInitialized |-> FALSE, faceFilter |-> FALSE,
     lastDetections |-> <<>>, frameSkip |-> skip, detectionThreshold |-> threshold,
     frameCount |-> 0, library |-> "none", phase |-> "idle", attempts |-> 0, path |-> 0,
     inits |-> 0, libraryInits |-> 0, callbacks |-> 0, onErrorCalls |-> 0, onReadyCalls |-> 0,
     onTrackCalls |-> 0, destroyed |-> FALSE, afterDestroy |-> 0, outcome |-> <<"none">>]

\* the same without the call of onError
jeelizCatchSilent(m, message) ==
    [m EXCEPT !.error = JeelizError("initialization", message), !.status = "error",
              !.phase = "idle",
              !.outcome = <<"rejected", JeelizError("initialization", message)>>]

\* the catch block of init()
jeelizCatch(m, message) ==
    [m EXCEPT !.error = JeelizError("initialization", message), !.status = "error",
              !.onErrorCalls = @ + 1, !.phase = "idle",
              !.outcome = <<"rejected", JeelizError("initialization", message)>>]

\* window.JEELIZFACEFILTER.init(initOptions) with the n-th path
callLibrary(m, n) ==
    [m EXCEPT !.phase = "initializing", !.path = n, !.libraryInits = @ + 1]

\* waitForJeeliz at the head of its loop, and init() behind it
waitCheck(m) ==
    IF m.library # "JEELIZFACEFILTER" /\ m.attempts < maxAttempts
    THEN [m EXCEPT !.phase = "waiting"]
    ELSE IF m.library = "JEELIZFACEFILTER" THEN callLibrary(m, 1)
    ELSE IF m.library = "other" THEN callLibrary([m EXCEPT !.library = "JEELIZFACEFILTER"], 1)
    ELSE jeelizCatch(m, "Jeeliz FaceFilter failed to load within 5 seconds timeout")

\* init(canvas) up to its first await
jeelizInit(m) ==
    IF m.isInitialized
    THEN [m EXCEPT !.inits = @ + 1, !.destroyed = FALSE, !.outcome = <<"resolved">>]
    ELSE waitCheck([m EXCEPT !.inits = @ + 1, !.destroyed = FALSE, !.status = "loading",
                             !.error = NoError, !.attempts = 0, !.outcome = <<"none">>])

\* a consumer callback is made
Delivered(m) == [m EXCEPT !.afterDestroy = IF m.destroyed THEN @ + 1 ELSE @]

jeelizOnReady(m) ==
    Delivered([m EXCEPT !.isInitialized = TRUE, !.status = "ready", !.onReadyCalls = @ + 1])

\* detectionThreshold || 0.1
OrTenth(threshold) == IF threshold = NoNumber \/ threshold = 0 THEN 1 ELSE threshold

\* value || 0
OrNought(value) == IF value = NoNumber THEN 0 ELSE value

\* the same with the landmarks of a full mesh
convertWithLandmarks(raw) ==
    [state |-> IF raw.detected # NoNumber /\ raw.detected > 5 THEN 1 ELSE 0,
     boundingBox |-> [x |-> OrNought(raw.x) * canvasWidth - (OrNought(raw.s) * canvasWidth) \div 2,
                      y |-> OrNought(raw.y) * canvasHeight - (OrNought(raw.s) * canvasHeight) \div 2,
                      width |-> OrNought(raw.s) * canvasWidth,
                      height |-> OrNought(raw.s) * canvasHeight],
     landmarks |-> [length |-> 468, pts |-> [i \in {123, 352} |-> <<0, 0>>]],
     confidence |-> OrNought(raw.detected)]

convertJeelizState(raw) ==
    [state |-> IF raw.detected # NoNumber /\ raw.detected > 5 THEN 1 ELSE 0,
     boundingBox |-> [x |-> OrNought(raw.x) * canvasWidth - (OrNought(raw.s) * canvasWidth) \div 2,
                      y |-> OrNought(raw.y) * canvasHeight - (OrNought(raw.s) * canvasHeight) \div 2,
                      width |-> OrNought(raw.s) * canvasWidth,
                      height |-> OrNought(raw.s) * canvasHeight],
     landmarks |-> NoLandmarks,
     confidence |-> OrNought(raw.detected)]

\* the filter / map / filter of onTrack
Detections(m, states) ==
    LET IsDetected(raw) == raw.state = 1 \/ (raw.detected # NoNumber /\ raw.detected > 5)
        Kept(d) == d.confidence # 0 /\ d.confidence >= OrTenth(m.detectionThreshold)
        converted == [i \in DOMAIN SelectSeq(states, IsDetected) |->
                         convertJeelizState(SelectSeq(states, IsDetected)[i])]
    IN SelectSeq(converted, Kept)

jeelizOnTrack(m, states) ==
    LET count == nextFrameCount(m.frameCount, OrOne(m.frameSkip))
        counted == [m EXCEPT !.frameCount = count]
    IN IF count # 0 THEN counted
       ELSE Delivered([counted EXCEPT !.lastDetections = Detections(m, states),
                                      !.onTrackCalls = @ + 1])

destroy(m) ==
    [m EXCEPT !.faceFilter = FALSE, !.isInitialized = FALSE, !.status = "loading",
              !.error = NoError, !.lastDetections = <<>>, !.destroyed = TRUE,
              !.afterDestroy = 0]

isReady(m) == m.isInitialized /\ m.status = "ready"

\* the managers and the initialisation state at mount
ManagersAtMount ==
    /\ webcam = NewWebcamManager
    /\ webcamLog = <<>>
    /\ loader = NewLoader(NoNumber)
    /\ windowSelfieSegmentation = FALSE
    /\ jeelizManager = NewManager(NoNumber, NoNumber)
    /\ effects = <<>>
    /\ runs = <<>>
    /\ error = NoError
    /\ onErrorCalls = <<>>

\* the closure of one run of the compositing effect: it sees the state of the
\* render it ran in (currentBackground, mirror, faceDetections, beautyFilters)
StartLoop(st, bg, detections, filters, mir) ==
    IF st # "ready" THEN NoLoop
    ELSE [kind |-> IF bg = Null THEN "draw" ELSE "camera",
          background |-> bg, faceDetections |-> detections, beautyFilters |-> filters,
          mirror |-> mir, started |-> FALSE, frameCount |-> 0, delivered |-> 0,
          pending |-> FALSE]

\* the same without the call of onError
initCatchNoCallback(err, called) ==
    [error |-> err, status |-> "error", onErrorCalls |-> called]

\* the catch of the hook's effects: setError(err), setStatus('error'), onError(err)
initCatch(err, called) ==
    [error |-> err, status |-> "error", onErrorCalls |-> Append(called, err)]

\* one run of the initialisation effect with its managers; setReady tells whether
\* the run has called setStatus('ready')
NewRun(modelSelection) ==
    [phase |-> "webcam", isMounted |-> TRUE, webcam |-> startCalled(NewWebcamManager),
     loader |-> NewLoader(modelSelection), setReady |-> FALSE]

\* a run whose webcam and MediaPipe are up
ReadyRun(modelSelection) ==
    [phase |-> "done", isMounted |-> TRUE,
     webcam |-> startResolved(startCalled(NewWebcamManager)),
     loader |-> loadCalled(NewLoader(modelSelection), TRUE), setReady |-> TRUE]

\* the hook's state at mount: useState / useRef initial values, options defaults
LoopAtMount ==
    /\ status = "loading"
    /\ enableFaceFilters = FALSE
    /\ frameSkip = 1
    /\ faceDetections = <<>>
    /\ beautyFilters = <<>>
    /\ mirror = TRUE
    /\ videoReady = FALSE
    /\ loop = NoLoop
    /\ composited = NoComposite
    /\ now = BG_CHANGE_DEBOUNCE
    /\ lastBgChange = 0
    /\ requestedBackground = Null
    /\ jeeliz = NewJeelizManager(NoNumber)

Init ==
    /\ LoopAtMount
    /\ ManagersAtMount
    /\ \E w \in 1..MaxW : out = Blank(w, 1)
    /\ ctxOK \in BOOLEAN
    /\ call = Idle
    /\ tempCanvas = Blank(DefaultW, 1)
    /\ originalCanvas = Blank(DefaultW, 1)
    /\ calls = 0
    /\ scratchMade = FALSE
    /\ preloads = <<>>
    /\ backgrounds = <<>>
    /\ defaultMode = NoMode
    /\ availableBackgrounds = <<>>
    /\ currentBackground = Null

\* the render loop calls compositeFrame({inputImage, segmentationMask, outputCanvas, options})
CallCompositeFrame ==
    /\ call.phase = "idle"
    /\ \E f \in Frames : \E m \in Masks(f) : \E opts \in OptionsFor(f) :
        call' = [phase |-> "pending", op |-> "compositeFrame", frame |-> f, mask |-> m,
                 options |-> opts, res |-> "none"]
    /\ UNCHANGED <<out, ctxOK, tempCanvas, originalCanvas, calls, scratchMade, hookVars, sessionVars>>

CompositeFrame ==
    /\ call.phase = "pending" /\ call.op = "compositeFrame"
    /\ LET r == compositeFrame(out, ctxOK, call.frame, call.mask, call.options)
           created == createsTempCanvas(ctxOK, call.frame, call.options)
       IN /\ out' = r.out
          /\ scratchMade' = (scratchMade \/ created)
          /\ call' = [phase |-> "returned", op |-> call.op, frame |-> call.frame,
                      mask |-> call.mask, options |-> call.options, res |-> r.res,
                      created |-> created]
    /\ UNCHANGED <<ctxOK, tempCanvas, originalCanvas, calls, hookVars, sessionVars>>

\* ... or compositeFrameWithBeautyFilters, which never reads debugMode
CallCompositeFrameWithBeautyFilters ==
    /\ call.phase = "idle"
    /\ \E f \in Frames : \E m \in Masks(f) : \E opts \in OptionsFor(f) : \E fi \in FaceInputs :
        /\ opts.debugMode = Undef
        /\ call' = [phase |-> "pending", op |-> "compositeFrameWithBeautyFilters", frame |-> f,
                    mask |-> m, options |-> opts, faceDetections |-> fi[1],
                    beautyFilters |-> fi[2], res |-> "none"]
    /\ UNCHANGED <<out, ctxOK, tempCanvas, originalCanvas, calls, scratchMade, hookVars, sessionVars>>

CompositeFrameWithBeautyFilters ==
    /\ call.phase = "pending" /\ call.op = "compositeFrameWithBeautyFilters"
    /\ LET r == compositeFrameWithBeautyFilters(out, ctxOK, call.frame, call.mask,
                    call.faceDetections, call.beautyFilters, call.options)
           created == Validate(ctxOK, call.frame) = "go"
       IN /\ out' = r.out
          /\ scratchMade' = (scratchMade \/ created)
          /\ call' = [phase |-> "returned", op |-> call.op, frame |-> call.frame,
                      mask |-> call.mask, options |-> call.options,
                      faceDetections |-> call.faceDetections,
                      beautyFilters |-> call.beautyFilters, res |-> r.res,
                      created |-> created]
    /\ UNCHANGED <<ctxOK, tempCanvas, originalCanvas, calls, hookVars, sessionVars>>

\* options of the variant: those of compositor.ts and options.beautyFilter
WithFilter(o, b) ==
    [mode |-> o.mode, blurRadius |-> o.blurRadius, backgroundImage |-> o.backgroundImage,
     mirror |-> o.mirror, debugMode |-> o.debugMode, beautyFilter |-> b]

\* the variant called without a beauty descriptor
CallCompositeFramePlain ==
    /\ call.phase = "idle"
    /\ \E f \in Frames : \E m \in Masks(f) : \E opts \in OptionsFor(f) :
        call' = [phase |-> "pending", op |-> "compositeFrameBeauty", frame |-> f, mask |-> m,
                 options |-> WithFilter(opts, NoFilter), res |-> "none"]
    /\ UNCHANGED <<out, ctxOK, tempCanvas, originalCanvas, calls, scratchMade, hookVars, sessionVars>>

CompositeFrameBeauty ==
    /\ call.phase = "pending" /\ call.op = "compositeFrameBeauty"
    /\ LET r == compositeFrameBeauty(out, ctxOK, tempCanvas, originalCanvas, call.frame,
                                     call.mask, call.options)
           created == ctxOK /\ call.options.mode # "none"
       IN /\ out' = r.canvas
          /\ tempCanvas' = r.temp
          /\ originalCanvas' = r.orig
          /\ scratchMade' = (scratchMade \/ created)
          /\ call' = [phase |-> "returned", op |-> call.op, frame |-> call.frame,
                      mask |-> call.mask, options |-> call.options, res |-> r.res,
                      created |-> created,
                      steps |-> drawingSteps(out, ctxOK, call.frame, call.mask, call.options)]
    /\ UNCHANGED <<ctxOK, calls, hookVars, sessionVars>>

\* ---- the beauty-filter session: a bounded number of calls ------------------

\* frames, one mask per frame (only the first pixel foreground) and options of
\* the session
BeautyFrames ==
    {[kind |-> "image", width |-> w, height |-> 1, videoWidth |-> 0, videoHeight |-> 0]
        : w \in 1..MaxW}

BeautyMask(f) ==
    [kind |-> "bitmap", width |-> f.width, height |-> f.height,
     px |-> [p \in Pos(f.width, f.height) |-> IF p[1] = 1 THEN 2 ELSE 0]]

\* descriptors: none at all, kind 'none', full intensity, intensity 0, a
\* negative intensity, and every kind without intensity
BeautyFilters ==
    {NoFilter, [type |-> "none", intensity |-> 10], [type |-> "skin-smoothing", intensity |-> 10],
     [type |-> "brightness-contrast", intensity |-> 0], [type |-> "sharpen", intensity |-> 0 - 5]}
    \cup {[type |-> t, intensity |-> NoNumber] : t \in GlobalTypes}

BeautyOptions ==
    {WithFilter([mode |-> md, blurRadius |-> NoNumber, backgroundImage |-> None,
                 mirror |-> mi, debugMode |-> Undef], b)
        : md \in {"none", "blur", "image"}, mi \in BOOLEAN, b \in BeautyFilters}

CallCompositeFrameBeauty ==
    /\ call.phase = "idle" /\ calls < MaxCalls
    /\ \E f \in BeautyFrames : \E opts \in BeautyOptions :
        call' = [phase |-> "pending", op |-> "compositeFrameBeauty", frame |-> f,
                 mask |-> BeautyMask(f), options |-> opts, res |-> "none"]
    /\ calls' = calls + 1
    /\ UNCHANGED <<out, ctxOK, tempCanvas, originalCanvas, scratchMade, hookVars, sessionVars>>

\* applyBeautyFilter(outputCanvas, options) called directly
CallApplyBeautyFilter ==
    /\ call.phase = "idle" /\ calls < MaxCalls
    /\ \E b \in BeautyFilters \ {NoFilter} :
        call' = [phase |-> "pending", op |-> "applyBeautyFilter", options |-> b, res |-> "none"]
    /\ calls' = calls + 1
    /\ UNCHANGED <<out, ctxOK, tempCanvas, originalCanvas, scratchMade, hookVars, sessionVars>>

ApplyBeautyFilter ==
    /\ call.phase = "pending" /\ call.op = "applyBeautyFilter"
    /\ LET r == applyBeautyFilter([canvas |-> out, temp |-> tempCanvas,
                                   orig |-> originalCanvas, res |-> "done"],
                                  ctxOK, call.options)
       IN /\ out' = r.canvas
          /\ tempCanvas' = r.temp
          /\ originalCanvas' = r.orig
          /\ call' = [call EXCEPT !.phase = "returned", !.res = r.res]
    /\ UNCHANGED <<ctxOK, calls, scratchMade, hookVars, sessionVars>>

\* ---- the face-filter session -----------------------------------------------

\* the landmark indices the filters read, and a landmark list of n points: the
\* left-hand points at the surface's top left corner, the right-hand ones at its
\* bottom right corner
LandmarkIndices == {13, 14, 33, 123, 133, 352}

Landmarks(n) ==
    [length |-> n,
     pts |-> [i \in {i \in LandmarkIndices : i < n} |->
                IF i \in {13, 33, 123} THEN <<0, 0>> ELSE <<MaxW, 1>>]]

\* a full mesh, and the lengths that are too short for one kind or another
FullMesh == 468

ShortLengths == {0, 14, 100, 133, 352}

\* a detection over the whole surface with n landmarks
Face(st, n) ==
    [state |-> st, boundingBox |-> [x |-> 0, y |-> 0, width |-> MaxW, height |-> 1],
     landmarks |-> Landmarks(n)]

FilterPairs ==
    {<<Filter("face-contouring", NoNumber, Undef), Filter("face-contouring", NoNumber, Undef)>>,
     <<Filter("eye-enhancement", NoNumber, "false"), Filter("brightening", NoNumber, Undef)>>,
     <<Filter("blush", NoNumber, Undef), Filter("brightening", NoNumber, Undef)>>,
     <<Filter("brightening", NoNumber, "true"), Filter("lip-enhancement", NoNumber, Undef)>>}

FilterSingles(intensities) == {<<Filter(t, i, Undef)>> : t \in FilterTypes, i \in intensities}

\* the (detections, filters) pairs applyBeautyFilters is called with: lists of
\* two against pairs of filters, short landmark lists against the landmark
\* kinds, every kind at intensity 0 and at the default, and a box of negative
\* extent
RendererInputs ==
    ({<<Face(0, FullMesh), Face(1, FullMesh)>>, <<Face(1, FullMesh), Face(1, FullMesh)>>,
      <<Face(1, 100), Face(1, FullMesh)>>, <<Face(1, FullMesh), Detection(1, 0 - 1)>>}
        \X FilterPairs)
    \cup ({<<Face(1, n)>> : n \in ShortLengths}
            \X {<<Filter(t, NoNumber, Undef)>>
                    : t \in {"eye-enhancement", "lip-enhancement", "blush"}})
    \cup ({<<Face(1, FullMesh)>>} \X FilterSingles({NoNumber, 0}))
    \cup {<<<<>>, <<Filter("brightening", NoNumber, Undef)>>>>,
          <<<<Face(1, FullMesh)>>, <<>>>>,
          <<<<Detection(1, 0 - 1)>>, <<Filter("skin-smoothing", NoNumber, Undef)>>>>}

\* compositeFrameWithBeautyFilters with a landmark-bearing detection, on a frame
\* of full width under a mask that is not all foreground; the session composites
\* first and applies the renderer to the result afterwards
CallCompositeFrameWithFaces ==
    /\ call.phase = "idle" /\ calls = 0
    /\ \E m \in {[kind |-> "bitmap", width |-> MaxW, height |-> 1, px |-> a]
                    : a \in {a \in Alphas(MaxW, 1) : \E p \in DOMAIN a : a[p] # 2}} :
       \E md \in {"blur", "image"} : \E mi \in BOOLEAN :
       \E n \in {FullMesh} :
       \E fl \in FilterSingles({NoNumber}) \cup FilterPairs :
        call' = [phase |-> "pending", op |-> "compositeFrameWithBeautyFilters",
                 frame |-> [kind |-> "image", width |-> MaxW, height |-> 1,
                            videoWidth |-> 0, videoHeight |-> 0],
                 mask |-> m,
                 options |-> [mode |-> md, blurRadius |-> NoNumber,
                              backgroundImage |-> IF md = "image" THEN [width |-> MaxW, height |-> 1]
                                                  ELSE None,
                              mirror |-> mi, debugMode |-> Undef],
                 faceDetections |-> Given(<<Face(1, n)>>), beautyFilters |-> Given(fl),
                 res |-> "none"]
    /\ UNCHANGED <<out, ctxOK, tempCanvas, originalCanvas, calls, scratchMade, hookVars, sessionVars>>

\* new BeautyFilterRenderer().applyBeautyFilters(outputCanvas, detections, filters)
CallApplyBeautyFilters ==
    /\ call.phase = "idle" /\ calls < MaxFaceCalls
    /\ \E in \in RendererInputs :
        call' = [phase |-> "pending", op |-> "applyBeautyFilters", detections |-> in[1],
                 filters |-> in[2], res |-> "none", applied |-> <<>>]
    /\ calls' = calls + 1
    /\ UNCHANGED <<out, ctxOK, tempCanvas, originalCanvas, scratchMade, hookVars, sessionVars>>

ApplyBeautyFilters ==
    /\ call.phase = "pending" /\ call.op = "applyBeautyFilters"
    /\ LET r == IF ctxOK THEN applyBeautyFilters(out, call.detections, call.filters)
                ELSE [canvas |-> out, res |-> "No 2D context available on canvas",
                      applied |-> <<>>]
       IN /\ out' = r.canvas
          /\ call' = [call EXCEPT !.phase = "returned", !.res = r.res, !.applied = r.applied]
    /\ UNCHANGED <<ctxOK, tempCanvas, originalCanvas, calls, scratchMade, hookVars, sessionVars>>

\* the caller goes on to the next frame
Return ==
    /\ call.phase = "returned"
    /\ call' = Idle
    /\ UNCHANGED <<out, ctxOK, tempCanvas, originalCanvas, calls, scratchMade, hookVars, sessionVars>>

Next ==
    \/ CallCompositeFrame
    \/ CompositeFrame
    \/ CallCompositeFrameWithBeautyFilters
    \/ CompositeFrameWithBeautyFilters
    \/ CallCompositeFramePlain
    \/ CompositeFrameBeauty
    \/ Return

Spec == Init /\ [][Next]_vars

NextBeauty ==
    \/ CallCompositeFrameBeauty
    \/ CompositeFrameBeauty
    \/ CallApplyBeautyFilter
    \/ ApplyBeautyFilter
    \/ Return

SpecBeauty == Init /\ [][NextBeauty]_vars

NextFace ==
    \/ CallCompositeFrameWithFaces
    \/ CompositeFrameWithBeautyFilters
    \/ CallApplyBeautyFilters
    \/ ApplyBeautyFilters
    \/ Return

SpecFace == Init /\ [][NextFace]_vars

\* ---- utils/backgrounds: preloadBackgrounds ----------------------------------

\* a blur option, two image options with a src, an image option without one
BackgroundOptions ==
    {[label |-> "Blur", type |-> "blur", src |-> NoSrc],
     [label |-> "Image", type |-> "image", src |-> "img.jpg"],
     [label |-> "Other", type |-> "image", src |-> "other.png"],
     [label |-> "NoSrc", type |-> "image", src |-> NoSrc]}

RECURSIVE ListsUpTo(_)
ListsUpTo(n) ==
    IF n = 0 THEN {<<>>}
    ELSE ListsUpTo(n - 1)
         \cup {Append(l, o) : l \in {l \in ListsUpTo(n - 1) : Len(l) = n - 1},
                               o \in BackgroundOptions}

BackgroundLists == ListsUpTo(MaxSpecs)

\* promises
PendingPromise == [state |-> "pending"]
Fulfilled(v) == [state |-> "fulfilled", value |-> v]
Rejected(e) == [state |-> "rejected", reason |-> e]

\* loadImage(src): the image element and the error of a failed load
Img(src) == <<"img", src>>
LoadError(src) == <<"Failed to load image: ", src>>

NeedsLoad(option) == option.type = "image" /\ option.src # NoSrc

\* the same without the try/catch around loadImage
mappedNoCatch(option, load) ==
    IF NeedsLoad(option)
    THEN CASE load = "loaded" ->
                Fulfilled([option |-> option, image |-> Img(option.src), isReady |-> TRUE,
                           error |-> NoError])
           [] load = "failed" -> Rejected(LoadError(option.src))
           [] OTHER -> PendingPromise
    ELSE Fulfilled([option |-> option, image |-> NoImage, isReady |-> TRUE, error |-> NoError])

\* the promise of the async callback of options.map for one option, given the
\* state of its image load ("none", "pending", "loaded", "failed")
mapped(option, load) ==
    IF NeedsLoad(option)
    THEN CASE load = "loaded" ->
                Fulfilled([option |-> option, image |-> Img(option.src), isReady |-> TRUE,
                           error |-> NoError])
           [] load = "failed" ->
                Fulfilled([option |-> option, image |-> NoImage, isReady |-> FALSE,
                           error |-> LoadError(option.src)])
           [] OTHER -> PendingPromise
    ELSE Fulfilled([option |-> option, image |-> NoImage, isReady |-> TRUE, error |-> NoError])

\* Promise.all: rejected with the first rejection, fulfilled in input order when
\* every entry is fulfilled
PromiseAll(entries) ==
    IF \E i \in DOMAIN entries : entries[i].state = "rejected"
    THEN LET first == CHOOSE i \in DOMAIN entries :
                        /\ entries[i].state = "rejected"
                        /\ \A j \in DOMAIN entries : entries[j].state = "rejected" => i <= j
         IN Rejected(entries[first].reason)
    ELSE IF \A i \in DOMAIN entries : entries[i].state = "fulfilled"
    THEN Fulfilled([i \in DOMAIN entries |-> entries[i].value])
    ELSE PendingPromise

\* a call of preloadBackgrounds(options): every image load starts at once
preloadBackgrounds(options, caller) ==
    LET loads == [i \in DOMAIN options |-> IF NeedsLoad(options[i]) THEN "pending" ELSE "none"]
    IN [options |-> options, caller |-> caller, loads |-> loads,
        entries |-> [i \in DOMAIN options |-> mapped(options[i], loads[i])],
        promise |-> PendingPromise]

\* the call's promise can settle: its continuation is a queued microtask
Settleable(c) == c.promise.state = "pending" /\ PromiseAll(c.entries).state # "pending"

\* microtasks run before the next event or render
Drained == \A k \in DOMAIN preloads : ~Settleable(preloads[k])

Settle(k, i, load) ==
    preloads' = [preloads EXCEPT ![k].loads[i] = load,
                                 ![k].entries[i] = mapped(preloads[k].options[i], load)]

\* img.onload of an image in flight
ImageLoads ==
    /\ Drained
    /\ \E k \in DOMAIN preloads : \E i \in DOMAIN preloads[k].loads :
          preloads[k].loads[i] = "pending" /\ Settle(k, i, "loaded")
    /\ UNCHANGED <<canvasVars, backgrounds, defaultMode, availableBackgrounds, currentBackground, sessionVars>>

\* img.onerror of an image in flight
ImageFails ==
    /\ Drained
    /\ \E k \in DOMAIN preloads : \E i \in DOMAIN preloads[k].loads :
          preloads[k].loads[i] = "pending" /\ Settle(k, i, "failed")
    /\ UNCHANGED <<canvasVars, backgrounds, defaultMode, availableBackgrounds, currentBackground, sessionVars>>

\* a direct call, as in the tests
CallPreloadBackgrounds ==
    /\ preloads = <<>>
    /\ \E options \in BackgroundLists : preloads' = <<preloadBackgrounds(options, "direct")>>
    /\ UNCHANGED <<canvasVars, backgrounds, defaultMode, availableBackgrounds, currentBackground, sessionVars>>

\* the direct call's promise settles
PreloadSettles ==
    /\ \E k \in DOMAIN preloads :
          /\ Settleable(preloads[k]) /\ preloads[k].caller = "direct"
          /\ preloads' = [preloads EXCEPT ![k].promise = PromiseAll(preloads[k].entries)]
    /\ UNCHANGED <<canvasVars, backgrounds, defaultMode, availableBackgrounds, currentBackground, sessionVars>>

\* ---- useWebcamBackgroundSwitcher: the preload effect -------------------------

DefaultModes == {NoMode, "Image"}

\* loaded[0] || null, or the first entry labelled options.defaultMode
DefaultBackground(loaded, mode) ==
    LET found == {i \in DOMAIN loaded : loaded[i].option.label = mode}
        first == CHOOSE i \in found : \A j \in found : i <= j
    IN IF mode # NoMode /\ found # {} THEN loaded[first]
       ELSE IF Len(loaded) > 0 THEN loaded[1]
       ELSE Null

\* the effect runs on mount and whenever options.backgrounds changes
RunPreloadEffect ==
    /\ Drained /\ Len(preloads) < MaxPreloads
    /\ \E options \in BackgroundLists :
          /\ preloads = <<>> \/ options # backgrounds
          /\ backgrounds' = options
          /\ preloads' = Append(preloads, preloadBackgrounds(options, "hook"))
    /\ status' = "loading"
    /\ loop' = NoLoop
    /\ UNCHANGED <<canvasVars, defaultMode, availableBackgrounds, currentBackground, managerVars,
                   initVars, enableFaceFilters, frameSkip, faceDetections, beautyFilters, mirror,
                   videoReady, composited, now, lastBgChange, requestedBackground, jeeliz>>

\* the then / catch callbacks of the effect: then sets the backgrounds, which
\* restarts the compositing loop; catch sets error and status and calls onError
PreloadEffectSettles ==
    /\ \E k \in DOMAIN preloads :
          LET settled == PromiseAll(preloads[k].entries)
          IN /\ Settleable(preloads[k]) /\ preloads[k].caller = "hook"
             /\ preloads' = [preloads EXCEPT ![k].promise = settled]
             /\ IF settled.state = "fulfilled"
                THEN /\ availableBackgrounds' = settled.value
                     /\ currentBackground' = DefaultBackground(settled.value, defaultMode)
                     /\ loop' = IF currentBackground' = currentBackground THEN loop
                                ELSE StartLoop(status, currentBackground', faceDetections,
                                               beautyFilters, mirror)
                     /\ UNCHANGED <<status, error, onErrorCalls>>
                ELSE /\ error' = initCatch(settled.reason, onErrorCalls).error
                     /\ status' = initCatch(settled.reason, onErrorCalls).status
                     /\ onErrorCalls' = initCatch(settled.reason, onErrorCalls).onErrorCalls
                     /\ loop' = NoLoop
                     /\ UNCHANGED <<availableBackgrounds, currentBackground>>
    /\ UNCHANGED <<canvasVars, backgrounds, defaultMode, managerVars, runs, enableFaceFilters,
                   frameSkip, faceDetections, beautyFilters, mirror, videoReady, composited, now,
                   lastBgChange, requestedBackground, jeeliz>>

InitPreload ==
    /\ LoopAtMount
    /\ ManagersAtMount
    /\ out = Blank(1, 1)
    /\ ctxOK = TRUE
    /\ call = Idle
    /\ tempCanvas = Blank(DefaultW, 1)
    /\ originalCanvas = Blank(DefaultW, 1)
    /\ calls = 0
    /\ scratchMade = FALSE
    /\ preloads = <<>>
    /\ backgrounds = <<>>
    /\ defaultMode \in DefaultModes
    /\ availableBackgrounds = <<>>
    /\ currentBackground = Null

NextPreload ==
    \/ CallPreloadBackgrounds
    \/ ImageLoads
    \/ ImageFails
    \/ PreloadSettles

SpecPreload == InitPreload /\ [][NextPreload]_vars

NextHook ==
    \/ RunPreloadEffect
    \/ ImageLoads
    \/ ImageFails
    \/ PreloadEffectSettles

SpecHook == InitPreload /\ [][NextHook]_vars

\* ---- a WebcamManager used on its own --------------------------------------------

\* the surfaces and the hook state that the manager objects leave alone
Untouched ==
    /\ out = Blank(1, 1)
    /\ ctxOK = TRUE
    /\ call = Idle
    /\ tempCanvas = Blank(DefaultW, 1)
    /\ originalCanvas = Blank(DefaultW, 1)
    /\ calls = 0
    /\ scratchMade = FALSE
    /\ preloads = <<>>
    /\ backgrounds = <<>>
    /\ defaultMode = NoMode
    /\ availableBackgrounds = <<>>
    /\ currentBackground = Null
    /\ LoopAtMount

InitWebcam ==
    /\ Untouched
    /\ ManagersAtMount

\* the start() and stop() calls made so far
WebcamCalls ==
    LET IsCall(e) == e[1] \in {"start", "stop"}
    IN Len(SelectSeq(webcamLog, IsCall))

WebcamStart ==
    /\ WebcamCalls < MaxWebcamCalls
    /\ webcam' = startCalled(webcam)
    /\ webcamLog' = Append(webcamLog, <<"start">>)
    /\ UNCHANGED <<canvasVars, hookVars, loopVars, loader, windowSelfieSegmentation, jeelizManager, effects, initVars>>

\* getUserMedia resolves: a start() in flight goes on
WebcamAcquired ==
    /\ webcam.inflight > 0
    /\ webcam' = startResolved(webcam)
    /\ webcamLog' = Append(webcamLog, <<"resolved", webcam'.stream>>)
    /\ UNCHANGED <<canvasVars, hookVars, loopVars, loader, windowSelfieSegmentation, jeelizManager, effects, initVars>>

\* getUserMedia rejects with err: start() rejects with the WebcamError it stored
WebcamRejects(err) ==
    /\ webcam.inflight > 0
    /\ webcam' = startRejected(webcam, err)
    /\ webcamLog' = Append(webcamLog, <<"rejected", webcam'.error>>)
    /\ UNCHANGED <<canvasVars, hookVars, loopVars, loader, windowSelfieSegmentation, jeelizManager, effects, initVars>>

WebcamStop ==
    /\ WebcamCalls < MaxWebcamCalls
    /\ webcam' = stop(webcam)
    /\ webcamLog' = Append(webcamLog, <<"stop">>)
    /\ UNCHANGED <<canvasVars, hookVars, loopVars, loader, windowSelfieSegmentation, jeelizManager, effects, initVars>>

NextWebcam ==
    \/ WebcamStart
    \/ WebcamAcquired
    \/ \E err \in DeviceErrors : WebcamRejects(err)
    \/ WebcamStop

SpecWebcam == InitWebcam /\ [][NextWebcam]_vars

\* ---- a MediaPipeLoader used on its own -------------------------------------------

ModelSelections == {0, 1}

InitLoader ==
    /\ Untouched
    /\ webcam = NewWebcamManager
    /\ webcamLog = <<>>
    /\ \E modelSelection \in ModelSelections \cup {NoNumber} : loader = NewLoader(modelSelection)
    /\ windowSelfieSegmentation \in BOOLEAN
    /\ jeelizManager = NewManager(NoNumber, NoNumber)
    /\ effects = <<>>
    /\ runs = <<>>
    /\ error = NoError
    /\ onErrorCalls = <<>>

LoaderLoad ==
    /\ loader.loads < MaxLoads
    /\ loader' = loadCalled(loader, windowSelfieSegmentation)
    /\ UNCHANGED <<canvasVars, hookVars, loopVars, webcam, webcamLog, jeelizManager, effects, windowSelfieSegmentation,
                   initVars>>

\* script.onload: the page has SelfieSegmentation, a waiting load() goes on
ScriptLoads ==
    /\ loader.inflight > 0
    /\ windowSelfieSegmentation' = TRUE
    /\ loader' = [loadCompletes(loader) EXCEPT !.inflight = @ - 1]
    /\ UNCHANGED <<canvasVars, hookVars, loopVars, webcam, webcamLog, jeelizManager, effects, initVars>>

\* script.onerror: a waiting load() rejects
ScriptFails ==
    /\ loader.inflight > 0
    /\ loader' = [loadFails(loader, Error("Failed to load MediaPipe script"))
                     EXCEPT !.inflight = @ - 1]
    /\ UNCHANGED <<canvasVars, hookVars, loopVars, webcam, webcamLog, jeelizManager, effects, windowSelfieSegmentation,
                   initVars>>

SetModelSelection ==
    /\ \E model \in ModelSelections :
          loader' = [setModelSelection(loader, model) EXCEPT !.requested = model]
    /\ UNCHANGED <<canvasVars, hookVars, loopVars, webcam, webcamLog, jeelizManager, effects, windowSelfieSegmentation,
                   initVars>>

NextLoader ==
    \/ LoaderLoad
    \/ ScriptLoads
    \/ ScriptFails
    \/ SetModelSelection

SpecLoader == InitLoader /\ [][NextLoader]_vars

\* ---- a JeelizManager used on its own ---------------------------------------------

\* what the library hands to callbackTrack: detected in tenths, state, position
RawStates ==
    {[detected |-> d, state |-> st, x |-> 1, y |-> 1, s |-> 1] :
        d \in {NoNumber, 3, 9}, st \in {0, 1}}

RawStateLists == {<<>>} \cup {<<raw>> : raw \in RawStates}

InitJeeliz ==
    /\ Untouched
    /\ webcam = NewWebcamManager
    /\ webcamLog = <<>>
    /\ loader = NewLoader(NoNumber)
    /\ windowSelfieSegmentation = FALSE
    /\ \E skip \in {NoNumber, MaxSkip}, threshold \in {NoNumber, 8} :
           jeelizManager = NewManager(skip, threshold)
    /\ effects = <<>>
    /\ runs = <<>>
    /\ error = NoError
    /\ onErrorCalls = <<>>

JeelizUnchanged ==
    UNCHANGED <<canvasVars, hookVars, loopVars, webcam, webcamLog, loader,
                windowSelfieSegmentation, effects, initVars>>

\* init(canvas) is called
JeelizInit ==
    /\ jeelizManager.phase = "idle"
    /\ jeelizManager.inits < MaxJeelizInits
    /\ jeelizManager' = jeelizInit(jeelizManager)
    /\ JeelizUnchanged

\* one 100 ms wait of waitForJeeliz is over
JeelizWaitElapses ==
    /\ jeelizManager.phase = "waiting"
    /\ jeelizManager' = waitCheck([jeelizManager EXCEPT !.attempts = @ + 1])
    /\ JeelizUnchanged

\* the script of the library has run and defined a global
LibraryArrives(name) ==
    /\ jeelizManager.library = "none"
    /\ jeelizManager' = [jeelizManager EXCEPT !.library = name]
    /\ JeelizUnchanged

\* JEELIZFACEFILTER.init resolves
LibraryInitResolves ==
    /\ jeelizManager.phase = "initializing"
    /\ jeelizManager' = [jeelizManager EXCEPT !.faceFilter = TRUE, !.phase = "idle",
                                              !.outcome = <<"resolved">>]
    /\ JeelizUnchanged

\* JEELIZFACEFILTER.init throws: the next path, or the catch block after the last
LibraryInitRejects ==
    /\ jeelizManager.phase = "initializing"
    /\ jeelizManager' =
           IF jeelizManager.path < nnPaths
           THEN callLibrary(jeelizManager, jeelizManager.path + 1)
           ELSE jeelizCatch(jeelizManager, "All neural network paths failed")
    /\ JeelizUnchanged

\* the library calls callbackReady
CallbackReady ==
    /\ jeelizManager.libraryInits > 0
    /\ jeelizManager.callbacks < MaxCallbacks
    /\ jeelizManager' = jeelizOnReady([jeelizManager EXCEPT !.callbacks = @ + 1])
    /\ JeelizUnchanged

\* the library calls callbackTrack
CallbackTrack(states) ==
    /\ jeelizManager.libraryInits > 0
    /\ jeelizManager.callbacks < MaxCallbacks
    /\ jeelizManager' = jeelizOnTrack([jeelizManager EXCEPT !.callbacks = @ + 1], states)
    /\ JeelizUnchanged

\* destroy() is called
JeelizDestroy ==
    /\ jeelizManager' = destroy(jeelizManager)
    /\ JeelizUnchanged

NextJeeliz ==
    \/ JeelizInit
    \/ JeelizWaitElapses
    \/ \E name \in {"JEELIZFACEFILTER", "other"} : LibraryArrives(name)
    \/ LibraryInitResolves
    \/ LibraryInitRejects
    \/ CallbackReady
    \/ \E states \in RawStateLists : CallbackTrack(states)
    \/ JeelizDestroy

SpecJeeliz == InitJeeliz /\ [][NextJeeliz]_vars

\* ---- useWebcamBackgroundSwitcher: the initialisation effect ----------------------

\* a settled preload of the hook with every image loaded
LoadedCall(options) ==
    LET loads == [i \in DOMAIN options |-> IF NeedsLoad(options[i]) THEN "loaded" ELSE "none"]
        entries == [i \in DOMAIN options |-> mapped(options[i], loads[i])]
    IN [options |-> options, caller |-> "hook", loads |-> loads, entries |-> entries,
        promise |-> PromiseAll(entries)]

\* the hook after mount: the preload has settled, the first run waits for the webcam
InitMounted ==
    /\ out = Blank(1, 1)
    /\ ctxOK = TRUE
    /\ call = Idle
    /\ tempCanvas = Blank(DefaultW, 1)
    /\ originalCanvas = Blank(DefaultW, 1)
    /\ calls = 0
    /\ scratchMade = FALSE
    /\ backgrounds \in {<<>>, <<[label |-> "Blur", type |-> "blur", src |-> NoSrc],
                                [label |-> "Image", type |-> "image", src |-> "img.jpg"]>>}
    /\ defaultMode = NoMode
    /\ preloads = <<LoadedCall(backgrounds)>>
    /\ availableBackgrounds = preloads[1].promise.value
    /\ currentBackground = DefaultBackground(availableBackgrounds, defaultMode)
    /\ LoopAtMount
    /\ webcam = NewWebcamManager
    /\ webcamLog = <<>>
    /\ loader = NewLoader(NoNumber)
    /\ windowSelfieSegmentation \in BOOLEAN
    /\ jeelizManager = NewManager(NoNumber, NoNumber)
    /\ effects = <<>>
    /\ \E modelSelection \in ModelSelections : runs = <<NewRun(modelSelection)>>
    /\ error = NoError
    /\ onErrorCalls = <<>>

\* init() after load() has resolved: if (isMounted) setStatus('ready'), and the
\* compositing effect starts the loop
InitCompletes(k, w, l) ==
    /\ runs' = [runs EXCEPT ![k] = [@ EXCEPT !.phase = "done", !.webcam = w, !.loader = l,
                                             !.setReady = @ \/ runs[k].isMounted]]
    /\ status' = IF runs[k].isMounted THEN "ready" ELSE status
    /\ loop' = IF runs[k].isMounted /\ status # "ready"
               THEN StartLoop("ready", currentBackground, faceDetections, beautyFilters, mirror)
               ELSE loop
    /\ UNCHANGED <<error, onErrorCalls>>

\* the catch of init()
InitFails(k, w, l, err) ==
    /\ runs' = [runs EXCEPT ![k] = [@ EXCEPT !.phase = "failed", !.webcam = w, !.loader = l]]
    /\ error' = initCatch(err, onErrorCalls).error
    /\ status' = initCatch(err, onErrorCalls).status
    /\ onErrorCalls' = initCatch(err, onErrorCalls).onErrorCalls
    /\ loop' = NoLoop

\* getUserMedia resolves for run k: the stream is attached and load() is called
InitWebcamAcquired(k) ==
    /\ runs[k].phase = "webcam"
    /\ LET w == startResolved(runs[k].webcam)
           l == loadCalled(runs[k].loader, windowSelfieSegmentation)
       IN IF l.isLoaded
          THEN InitCompletes(k, w, l)
          ELSE /\ runs' = [runs EXCEPT ![k] = [@ EXCEPT !.phase = "mediapipe", !.webcam = w,
                                                        !.loader = l]]
               /\ UNCHANGED <<status, loop, error, onErrorCalls>>
    /\ UNCHANGED <<canvasVars, hookVars, managerVars, enableFaceFilters, frameSkip,
                   faceDetections, beautyFilters, mirror, videoReady, composited, now,
                   lastBgChange, requestedBackground, jeeliz>>

\* getUserMedia rejects for run k
InitWebcamRejects(k, err) ==
    /\ runs[k].phase = "webcam"
    /\ LET w == startRejected(runs[k].webcam, err)
       IN InitFails(k, w, runs[k].loader, w.error)
    /\ UNCHANGED <<canvasVars, hookVars, managerVars, enableFaceFilters, frameSkip,
                   faceDetections, beautyFilters, mirror, videoReady, composited, now,
                   lastBgChange, requestedBackground, jeeliz>>

\* the MediaPipe script loads for run k
InitScriptLoads(k) ==
    /\ runs[k].phase = "mediapipe"
    /\ windowSelfieSegmentation' = TRUE
    /\ InitCompletes(k, runs[k].webcam, [loadCompletes(runs[k].loader) EXCEPT !.inflight = @ - 1])
    /\ UNCHANGED <<canvasVars, hookVars, webcam, webcamLog, loader, jeelizManager, effects, enableFaceFilters, frameSkip,
                   faceDetections, beautyFilters, mirror, videoReady, composited, now,
                   lastBgChange, requestedBackground, jeeliz>>

\* the MediaPipe script fails to load for run k
InitScriptFails(k) ==
    /\ runs[k].phase = "mediapipe"
    /\ LET l == [loadFails(runs[k].loader, Error("Failed to load MediaPipe script"))
                    EXCEPT !.inflight = @ - 1]
       IN InitFails(k, runs[k].webcam, l, l.loadError)
    /\ UNCHANGED <<canvasVars, hookVars, managerVars, enableFaceFilters, frameSkip,
                   faceDetections, beautyFilters, mirror, videoReady, composited, now,
                   lastBgChange, requestedBackground, jeeliz>>

\* setModel: the current loader is told, and a changed model runs the effect
\* again: cleanup of the current run, then a new run with new managers
SetModel ==
    /\ \E model \in ModelSelections :
          LET k == Len(runs)
              told == [runs EXCEPT ![k].loader = setModelSelection(@, model)]
          IN IF model = runs[k].loader.modelSelection
             THEN /\ runs' = told
                  /\ UNCHANGED <<status, error, loop>>
             ELSE /\ Len(runs) < MaxRuns
                  /\ runs' = Append([told EXCEPT ![k].isMounted = FALSE,
                                                 ![k].webcam = stop(@)],
                                    NewRun(model))
                  /\ status' = "loading"
                  /\ error' = NoError
                  /\ loop' = NoLoop
    /\ UNCHANGED <<canvasVars, hookVars, managerVars, onErrorCalls, enableFaceFilters, frameSkip,
                   faceDetections, beautyFilters, mirror, videoReady, composited, now,
                   lastBgChange, requestedBackground, jeeliz>>

NextInit ==
    \/ \E k \in DOMAIN runs : InitWebcamAcquired(k)
    \/ \E k \in DOMAIN runs : \E err \in DeviceErrors : InitWebcamRejects(k, err)
    \/ \E k \in DOMAIN runs : InitScriptLoads(k)
    \/ \E k \in DOMAIN runs : InitScriptFails(k)
    \/ SetModel

SpecInit == InitMounted /\ [][NextInit]_vars

\* ---- useWebcamBackgroundSwitcher: initialisation and preload together -------------

\* what the browser does sooner or later: getUserMedia and the script load settle
InitSettles ==
    \/ \E k \in DOMAIN runs : InitWebcamAcquired(k)
    \/ \E k \in DOMAIN runs : \E err \in DeviceErrors : InitWebcamRejects(k, err)
    \/ \E k \in DOMAIN runs : InitScriptLoads(k)
    \/ \E k \in DOMAIN runs : InitScriptFails(k)

NextSession ==
    \/ InitSettles
    \/ SetModel
    \/ RunPreloadEffect
    \/ ImageLoads
    \/ ImageFails
    \/ PreloadEffectSettles

\* every pending promise and image event is settled in the end
SpecSession ==
    /\ InitMounted
    /\ [][NextSession]_vars
    /\ WF_vars(InitSettles)
    /\ WF_vars(ImageLoads \/ ImageFails)
    /\ WF_vars(PreloadEffectSettles)

\* ---- useWebcamBackgroundSwitcher: the compositing effect -----------------------

\* what one frame is composited with: the draw loop of mode 'none' draws the
\* video and runs the renderer, onResults calls one of the two compositors
CompositeCall(enabled, kind, bg, detections, filters, mir) ==
    IF kind = "draw"
    THEN IF enabled /\ Len(filters) > 0 /\ Len(detections) > 0
         THEN [fn |-> "applyBeautyFilters", background |-> Null, faceDetections |-> detections,
               beautyFilters |-> filters, mirror |-> FALSE]
         ELSE [fn |-> "drawImage", background |-> Null, faceDetections |-> <<>>,
               beautyFilters |-> <<>>, mirror |-> FALSE]
    ELSE IF enabled /\ Len(filters) > 0
         THEN [fn |-> "compositeFrameWithBeautyFilters", background |-> bg,
               faceDetections |-> detections, beautyFilters |-> filters, mirror |-> mir]
         ELSE [fn |-> "compositeFrame", background |-> bg, faceDetections |-> <<>>,
               beautyFilters |-> <<>>, mirror |-> mir]

\* detections the provider delivers, descriptors the caller sets
DetectionLists == {<<>>, <<Detection(1, MaxW)>>}

HookFilters == {[id |-> "smooth", type |-> "skin-smoothing"]}

RECURSIVE FilterListsUpTo(_)
FilterListsUpTo(n) ==
    IF n = 0 THEN {<<>>}
    ELSE FilterListsUpTo(n - 1)
         \cup {Append(l, f) : l \in {l \in FilterListsUpTo(n - 1) : Len(l) = n - 1},
                               f \in HookFilters}

FilterLists == FilterListsUpTo(MaxFilters)

\* the hook after initialisation: backgrounds preloaded, status 'ready', the
\* compositing effect has run
InitLoop ==
    /\ out = Blank(1, 1)
    /\ ctxOK = TRUE
    /\ call = Idle
    /\ tempCanvas = Blank(DefaultW, 1)
    /\ originalCanvas = Blank(DefaultW, 1)
    /\ calls = 0
    /\ scratchMade = FALSE
    /\ backgrounds \in {<<>>, <<[label |-> "Blur", type |-> "blur", src |-> NoSrc],
                                [label |-> "Image", type |-> "image", src |-> "img.jpg"]>>}
    /\ defaultMode = NoMode
    /\ preloads = <<LoadedCall(backgrounds)>>
    /\ availableBackgrounds = preloads[1].promise.value
    /\ currentBackground = DefaultBackground(availableBackgrounds, defaultMode)
    /\ webcam = NewWebcamManager
    /\ webcamLog = <<>>
    /\ loader = NewLoader(NoNumber)
    /\ windowSelfieSegmentation = TRUE
    /\ jeelizManager = NewManager(NoNumber, NoNumber)
    /\ effects = <<>>
    /\ runs = <<ReadyRun(0)>>
    /\ error = NoError
    /\ onErrorCalls = <<>>
    /\ status = "ready"
    /\ enableFaceFilters \in BOOLEAN
    /\ frameSkip \in 1..MaxSkip
    /\ faceDetections = <<>>
    /\ beautyFilters = <<>>
    /\ mirror = TRUE
    /\ videoReady \in BOOLEAN
    /\ loop = StartLoop(status, currentBackground, faceDetections, beautyFilters, mirror)
    /\ composited = NoComposite
    /\ now = BG_CHANGE_DEBOUNCE
    /\ lastBgChange = 0
    /\ requestedBackground = Null
    /\ \E skip \in {NoNumber} \cup 0..MaxSkip : jeeliz = NewJeelizManager(skip)

\* JeelizManager.onTrack and the hook's onTrack callback behind it:
\* setFaceDetections, a render, no effect re-run
OnTrack ==
    /\ enableFaceFilters
    /\ jeeliz.delivered < MaxFrames
    /\ LET count == nextFrameCount(jeeliz.frameCount, OrOne(jeeliz.frameSkip))
       IN /\ jeeliz' = [jeeliz EXCEPT !.frameCount = count,
                                      !.delivered = @ + 1,
                                      !.processed = (count = 0)]
          /\ IF count = 0
             THEN \E d \in DetectionLists : faceDetections' = d
             ELSE UNCHANGED faceDetections
    /\ UNCHANGED <<canvasVars, hookVars, managerVars, initVars, status, enableFaceFilters,
                   frameSkip, beautyFilters, mirror, videoReady, loop, composited, now,
                   lastBgChange, requestedBackground>>

\* setBeautyFilters, addBeautyFilter, removeBeautyFilter, clearBeautyFilters
UpdateBeautyFilters ==
    /\ \E filters \in FilterLists : beautyFilters' = filters
    /\ UNCHANGED <<canvasVars, hookVars, managerVars, initVars, status, enableFaceFilters, frameSkip, faceDetections,
                   mirror, videoReady, loop, composited, now, lastBgChange, requestedBackground, jeeliz>>

AddBeautyFilter ==
    /\ Len(beautyFilters) < MaxFilters
    /\ \E f \in HookFilters : beautyFilters' = Append(beautyFilters, f)
    /\ UNCHANGED <<canvasVars, hookVars, managerVars, initVars, status, enableFaceFilters, frameSkip, faceDetections,
                   mirror, videoReady, loop, composited, now, lastBgChange, requestedBackground, jeeliz>>

RemoveBeautyFilter ==
    /\ \E f \in HookFilters :
          LET keep(g) == g.id # f.id
          IN beautyFilters' = SelectSeq(beautyFilters, keep)
    /\ UNCHANGED <<canvasVars, hookVars, managerVars, initVars, status, enableFaceFilters, frameSkip, faceDetections,
                   mirror, videoReady, loop, composited, now, lastBgChange, requestedBackground, jeeliz>>

ClearBeautyFilters ==
    /\ beautyFilters' = <<>>
    /\ UNCHANGED <<canvasVars, hookVars, managerVars, initVars, status, enableFaceFilters, frameSkip, faceDetections,
                   mirror, videoReady, loop, composited, now, lastBgChange, requestedBackground, jeeliz>>

\* setMirror: a changed mirror is a changed dependency, the effect runs again
SetMirrorMode ==
    /\ \E val \in BOOLEAN :
          /\ mirror' = val
          /\ loop' = IF val = mirror THEN loop
                     ELSE StartLoop(status, currentBackground, faceDetections, beautyFilters, val)
    /\ UNCHANGED <<canvasVars, hookVars, managerVars, initVars, status, enableFaceFilters, frameSkip, faceDetections,
                   beautyFilters, videoReady, composited, now, lastBgChange, requestedBackground, jeeliz>>

\* the same with a call at exactly the debounce time dropped too
debouncedInclusive(t, last) == t - last <= BG_CHANGE_DEBOUNCE

\* the test of setBackground at time t, the last accepted call being at last
debounced(t, last) == t - last < BG_CHANGE_DEBOUNCE

\* setBackground: dropped within the debounce time of the last change;
\* requestedBackground keeps the argument of the call
SetBackground ==
    /\ \E i \in DOMAIN availableBackgrounds :
          LET bg == availableBackgrounds[i]
          IN /\ requestedBackground' = bg
             /\ IF debounced(now, lastBgChange)
                   THEN UNCHANGED <<currentBackground, lastBgChange, loop>>
                   ELSE /\ lastBgChange' = now
                        /\ currentBackground' = bg
                        /\ loop' = IF bg = currentBackground THEN loop
                                   ELSE StartLoop(status, bg, faceDetections, beautyFilters, mirror)
    /\ UNCHANGED <<canvasVars, managerVars, initVars, preloads, backgrounds, defaultMode,
                   availableBackgrounds, status, enableFaceFilters, frameSkip, faceDetections, beautyFilters, mirror,
                   videoReady, composited, now, jeeliz>>

\* 100 ms pass
Tick ==
    /\ now < MaxTime
    /\ now' = now + 1
    /\ UNCHANGED <<canvasVars, hookVars, managerVars, initVars, status, enableFaceFilters, frameSkip, faceDetections,
                   beautyFilters, mirror, videoReady, loop, composited, lastBgChange, requestedBackground, jeeliz>>

\* loadedmetadata: the video element has its dimensions
VideoChanges ==
    /\ ~videoReady
    /\ videoReady' = TRUE
    /\ UNCHANGED <<canvasVars, hookVars, managerVars, initVars, status, enableFaceFilters, frameSkip, faceDetections,
                   beautyFilters, mirror, loop, composited, now, lastBgChange, requestedBackground, jeeliz>>

\* camera.start(), at once or from checkVideoReady
StartCamera ==
    /\ loop.kind = "camera" /\ ~loop.started /\ videoReady
    /\ loop' = [loop EXCEPT !.started = TRUE]
    /\ UNCHANGED <<canvasVars, hookVars, managerVars, initVars, status, enableFaceFilters, frameSkip, faceDetections,
                   beautyFilters, mirror, videoReady, composited, now, lastBgChange, requestedBackground, jeeliz>>

\* onFrame of the Camera utility
OnFrame ==
    /\ loop.kind = "camera" /\ loop.started /\ ~loop.pending
    /\ loop.delivered < MaxFrames
    /\ LET count == nextFrameCount(loop.frameCount, frameSkip)
       IN loop' = [loop EXCEPT !.frameCount = count,
                               !.delivered = @ + 1,
                               !.pending = (count = 0 /\ videoReady)]
    /\ UNCHANGED <<canvasVars, hookVars, managerVars, initVars, status, enableFaceFilters, frameSkip, faceDetections,
                   beautyFilters, mirror, videoReady, composited, now, lastBgChange, requestedBackground, jeeliz>>

\* selfieSegmentation.onResults for the frame that was sent
OnResults ==
    /\ loop.kind = "camera" /\ loop.pending
    /\ composited' = CompositeCall(enableFaceFilters, loop.kind, loop.background,
                                   loop.faceDetections, loop.beautyFilters, loop.mirror)
    /\ loop' = [loop EXCEPT !.pending = FALSE]
    /\ UNCHANGED <<canvasVars, hookVars, managerVars, initVars, status, enableFaceFilters, frameSkip, faceDetections,
                   beautyFilters, mirror, videoReady, now, lastBgChange, requestedBackground, jeeliz>>

\* drawFrame of the mode 'none' loop
DrawLoopFrame ==
    /\ loop.kind = "draw" /\ videoReady
    /\ composited' = CompositeCall(enableFaceFilters, loop.kind, loop.background,
                                   loop.faceDetections, loop.beautyFilters, loop.mirror)
    /\ UNCHANGED <<canvasVars, hookVars, managerVars, initVars, status, enableFaceFilters, frameSkip, faceDetections,
                   beautyFilters, mirror, videoReady, loop, now, lastBgChange, requestedBackground, jeeliz>>

NextLoop ==
    \/ OnTrack
    \/ UpdateBeautyFilters
    \/ AddBeautyFilter
    \/ RemoveBeautyFilter
    \/ ClearBeautyFilters
    \/ SetMirrorMode
    \/ VideoChanges
    \/ StartCamera
    \/ OnFrame
    \/ OnResults
    \/ DrawLoopFrame

SpecLoop == InitLoop /\ [][NextLoop]_vars

NextBackground ==
    \/ SetBackground
    \/ SetMirrorMode
    \/ Tick

SpecBackground == InitLoop /\ [][NextBackground]_vars

\* ---- the compositing effect with a background: start and cleanup -----------------

\* one run of the effect in its MediaPipe branch: phase is "script" while
\* loadCameraUtilsScript is awaited, "polling" while checkVideoReady has a timer
\* pending, "done" otherwise; camera is "none", "created", "running" or
\* "stopped"; drawn counts the frames its results callback has drawn,
\* lateStarts the camera.start() calls after cleanup
NewEffect ==
    [phase |-> "script", stopped |-> FALSE, cancelled |-> FALSE, camera |-> "none",
     registered |-> FALSE, drawn |-> 0, lateStarts |-> 0]

\* camera.start()
cameraStart(e) ==
    [e EXCEPT !.camera = "running", !.phase = "done",
              !.lateStarts = IF e.cancelled THEN @ + 1 ELSE @]

\* checkVideoReady()
checkVideoReady(e, ready) ==
    IF ready THEN cameraStart(e) ELSE [e EXCEPT !.phase = "polling"]

\* the async function after await loadCameraUtilsScript()
afterScript(e, ready) ==
    IF e.cancelled THEN [e EXCEPT !.phase = "done"]
    ELSE IF ready THEN cameraStart([e EXCEPT !.registered = TRUE, !.camera = "created"])
    ELSE [e EXCEPT !.registered = TRUE, !.camera = "created", !.phase = "polling"]

\* the cleanup function the effect returns
cleanup(e) ==
    [e EXCEPT !.stopped = TRUE, !.cancelled = TRUE,
              !.camera = IF @ = "none" THEN "none" ELSE "stopped"]

\* the results callback of the run
onResults(e) ==
    IF e.stopped THEN e
    ELSE [e EXCEPT !.drawn = @ + 1]

InitEffect ==
    /\ Untouched
    /\ ManagersAtMount

EffectUnchanged ==
    UNCHANGED <<canvasVars, hookVars, loopVars, webcam, webcamLog, loader,
                windowSelfieSegmentation, jeelizManager, initVars>>

\* the effect runs: the cleanup of the run before it, then the new run
EffectRuns ==
    /\ Len(effects) < MaxEffects
    /\ effects' = Append([k \in DOMAIN effects |->
                              IF k = Len(effects) THEN cleanup(effects[k]) ELSE effects[k]],
                         NewEffect)
    /\ EffectUnchanged

\* the component unmounts
EffectUnmounts ==
    /\ effects # <<>>
    /\ ~effects[Len(effects)].cancelled
    /\ effects' = [effects EXCEPT ![Len(effects)] = cleanup(@)]
    /\ EffectUnchanged

ScriptLoaded(k) ==
    /\ effects[k].phase = "script"
    /\ effects' = [effects EXCEPT ![k] = afterScript(@, videoReady)]
    /\ EffectUnchanged

\* the 100 ms timer of checkVideoReady fires
CheckVideoReady(k) ==
    /\ effects[k].phase = "polling"
    /\ effects' = [effects EXCEPT ![k] = checkVideoReady(@, videoReady)]
    /\ EffectUnchanged

\* the run whose callback the segmentation instance holds: the last to register
Registered(k) ==
    /\ effects[k].registered
    /\ \A j \in DOMAIN effects : j > k => ~effects[j].registered

\* a running camera sends a frame and the results reach the registered callback
EffectFrame(k) ==
    /\ videoReady
    /\ \E j \in DOMAIN effects : effects[j].camera = "running"
    /\ Registered(k)
    /\ effects[k].drawn < MaxDraws
    /\ effects' = [effects EXCEPT ![k] = onResults(@)]
    /\ EffectUnchanged

NextEffect ==
    \/ EffectRuns
    \/ EffectUnmounts
    \/ \E k \in DOMAIN effects : ScriptLoaded(k)
    \/ \E k \in DOMAIN effects : CheckVideoReady(k)
    \/ \E k \in DOMAIN effects : EffectFrame(k)
    \/ VideoChanges

SpecEffect == InitEffect /\ [][NextEffect]_vars

\* ---- applyBeautyFilter on surfaces of several sizes --------------------------------

\* descriptors that run their filter
RunningFilters ==
    {[type |-> t, intensity |-> 10]
        : t \in {"skin-smoothing", "sharpen", "brightness-contrast", "color-boost"}}

InitScratch ==
    /\ Untouched
    /\ ManagersAtMount

\* applyBeautyFilter(canvas, options) is called on a surface of width w
CallApplyBeautyFilterOn(w) ==
    /\ call.phase \in {"idle", "returned"} /\ calls < MaxCalls
    /\ \E b \in RunningFilters :
        call' = [phase |-> "pending", op |-> "applyBeautyFilter", options |-> b, res |-> "none"]
    /\ out' = Blank(w, 1)
    /\ calls' = calls + 1
    /\ UNCHANGED <<ctxOK, tempCanvas, originalCanvas, scratchMade, hookVars, sessionVars>>

NextScratch ==
    \/ \E w \in 1..MaxW : CallApplyBeautyFilterOn(w)
    \/ ApplyBeautyFilter

SpecScratch == InitScratch /\ [][NextScratch]_vars

\* ---- compositeFrame with a beauty descriptor and the debug view -------------------

DebugOptions ==
    {WithFilter([mode |-> md, blurRadius |-> NoNumber, backgroundImage |-> None,
                 mirror |-> mi, debugMode |-> dm], b)
        : md \in {"none", "blur", "image"}, mi \in BOOLEAN, dm \in {Undef, "temp"},
          b \in {NoFilter, [type |-> "none", intensity |-> 10],
                 [type |-> "skin-smoothing", intensity |-> 10],
                 [type |-> "brightness-contrast", intensity |-> 5]}}

CallCompositeFrameDebug ==
    /\ call.phase = "idle" /\ calls < MaxDebugCalls
    /\ \E f \in BeautyFrames : \E opts \in DebugOptions :
        call' = [phase |-> "pending", op |-> "compositeFrameBeauty", frame |-> f,
                 mask |-> BeautyMask(f), options |-> opts, res |-> "none"]
    /\ calls' = calls + 1
    /\ UNCHANGED <<out, ctxOK, tempCanvas, originalCanvas, scratchMade, hookVars, sessionVars>>

NextOrder ==
    \/ CallCompositeFrameDebug
    \/ CompositeFrameBeauty

SpecOrder == InitScratch /\ [][NextOrder]_vars

\* ---- properties ----------------------------------------------------------

Returned(op) == call.phase = "returned" /\ call.op = op

Pending(op) == call.phase = "pending" /\ call.op = op

Throwing == {"No 2D context on output canvas", "InvalidStateError", "IndexSizeError"}

\* the mask's alpha under output pixel p (the foreground is drawn through the
\* same mirroring as everything else)
MaskAt(p) ==
    ScaledAlpha(call.mask, out.width, out.height)
        [<<IF call.options.mirror THEN out.width + 1 - p[1] ELSE p[1], p[2]>>]

\* the frame as drawImage puts it on the output, unblurred
FrameAt(p) ==
    ScaledLayer(FrameImg(call.frame), out.width, out.height, call.options.mirror)[p]

\* the blur or image background alone
BackgroundAt(p) ==
    IF call.options.mode = "blur"
    THEN BlurLayer(ScaledLayer(FrameImg(call.frame), out.width, out.height, call.options.mirror),
                   out.width, out.height, BlurRadiusOf(call.options))[p]
    ELSE ScaledLayer(BgImg(call.options.backgroundImage), out.width, out.height,
                     call.options.mirror)[p]

SplitCase ==
    /\ Returned("compositeFrame") /\ call.res = "done"
    /\ Drawable(call.frame) /\ ~MaskEmpty(call.mask)
    /\ \/ call.options.mode = "blur"
       \/ call.options.mode = "image" /\ call.options.backgroundImage # None

SplitHolds ==
    \A p \in DOMAIN out.px :
        /\ MaskAt(p) = 2 => out.px[p] = FrameAt(p)
        /\ MaskAt(p) = 0 => out.px[p] = BackgroundAt(p) /\ out.px[p] # FrameAt(p)

NoneCase ==
    /\ call.phase = "returned" /\ call.op \in {"compositeFrame", "compositeFrameBeauty"}
    /\ ctxOK /\ Drawable(call.frame) /\ call.options.mode = "none"
    /\ call.op = "compositeFrameBeauty" => call.options.beautyFilter = NoFilter

\* C2: compositeFrame (either version) in mode 'none' without beauty descriptor,
\* for a frame of positive size and any mask, returns normally with the frame
\* drawn over the whole output surface (through the mirroring, when set) and
\* nothing else: no pixel is masked out or replaced by a background, and an
\* unusable mask does not make the call fail.  A frame that carries its own
\* width and height is reproduced pixel for pixel at its own size.
C2_NoneShowsFrame ==
    NoneCase
        => /\ call.res = "done"
           /\ \A p \in DOMAIN out.px : out.px[p] = FrameAt(p)
           /\ call.frame.kind = "image"
                => /\ out.width = call.frame.width /\ out.height = call.frame.height
                   /\ \A p \in DOMAIN out.px :
                        out.px[p] = <<"f", IF call.options.mirror THEN out.width + 1 - p[1]
                                           ELSE p[1], p[2]>>

\* mode 'none' drew a frame of full width although the mask was a closed bitmap
C2_Witness ==
    /\ NoneCase /\ call.op = "compositeFrameBeauty" /\ call.options.mirror
    /\ MaskEmpty(call.mask) /\ call.mask.kind = "bitmap"
    /\ call.frame.kind = "image" /\ out.width = MaxW

ZeroFrame(f) == IntrinsicW(f) = 0 \/ IntrinsicH(f) = 0

\* C3: compositeFrame and compositeFrameWithBeautyFilters, called with a frame
\* whose width or height is zero, return without throwing and leave the output
\* surface (size and pixels) as it was, in every mode.
C3_ZeroFrameNoOp ==
    [][(/\ call.phase = "pending"
        /\ call.op \in {"compositeFrame", "compositeFrameWithBeautyFilters"}
        /\ ZeroFrame(call.frame))
            => (out' = out /\ call'.res = "skipped")]_vars

\* a zero-size frame was skipped over a surface that holds an earlier composite
C3_Witness ==
    /\ Returned("compositeFrameWithBeautyFilters") /\ call.res = "skipped"
    /\ ZeroFrame(call.frame) /\ call.options.mode = "image"
    /\ \E p \in DOMAIN out.px : out.px[p] # T

\* C4: compositeFrame with a frame of positive size and a mask whose width or
\* height is zero is a silent no-op: no exception, output surface unmodified.
C4_EmptyMaskNoOp ==
    [][(Pending("compositeFrame") /\ ctxOK /\ ~ZeroFrame(call.frame) /\ MaskEmpty(call.mask))
            => (out' = out /\ call'.res \notin Throwing)]_vars

BlackCase ==
    /\ Returned("compositeFrame") /\ ctxOK
    /\ Drawable(call.frame) /\ ~MaskEmpty(call.mask)
    /\ call.options.mode = "image" /\ call.options.backgroundImage = None

BlackHolds ==
    /\ call.res = "done"
    /\ \A p \in DOMAIN out.px :
        /\ MaskAt(p) = 0 => out.px[p] = Black
        /\ MaskAt(p) = 1 => out.px[p] = <<"over", <<"part", FrameAt(p)>>, Black>>
        /\ MaskAt(p) = 2 => out.px[p] = FrameAt(p)

\* C5 as stated: in mode 'image' without a loaded background image the call does
\* not throw and afterwards every output pixel outside the foreground is opaque
\* black, none showing the surface's previous content.
C5_AsStated == BlackCase => BlackHolds

\* C5 amended: the same, for calls whose options.debugMode is not 'temp'.
C5_BlackFallback == BlackCase /\ call.options.debugMode # "temp" => BlackHolds

\* the black fallback was drawn around a foreground pixel
C5_Witness ==
    /\ BlackCase /\ call.options.debugMode # "temp"
    /\ \E p, q \in DOMAIN out.px : MaskAt(p) = 0 /\ MaskAt(q) = 2

\* the surface the pending call of the variant leaves behind when mirror is off
Unmirrored ==
    compositeFrameBeauty(out, ctxOK, tempCanvas, originalCanvas, call.frame, call.mask,
                         [call.options EXCEPT !.mirror = FALSE]).canvas

\* C6: for the same frame, mask and options (any mode, with or without global
\* beauty descriptor) the output with mirror = true is the horizontal flip of
\* the output with mirror = false.
C6_MirrorIsFlip ==
    [][(Pending("compositeFrameBeauty") /\ ctxOK /\ call.options.mirror)
            => /\ out'.width = Unmirrored.width /\ out'.height = Unmirrored.height
               /\ \A p \in DOMAIN Unmirrored.px :
                    out'.px[p] = Unmirrored.px[<<Unmirrored.width + 1 - p[1], p[2]>>]]_vars

\* the surface the pending call of the variant leaves behind when the scratch
\* canvases of beauty-filters.ts are as the module created them
FromFreshScratch ==
    compositeFrameBeauty(out, ctxOK, Blank(DefaultW, 1), Blank(DefaultW, 1), call.frame,
                         call.mask, call.options).canvas

\* C7: the output of compositeFrame, global beauty filter included, depends on
\* frame, mask and options only: whatever calls came before, it is the output
\* the same call produces with untouched scratch canvases.
C7_NoHiddenState ==
    [][Pending("compositeFrameBeauty") => out' = FromFreshScratch]_vars

\* the surface the pending call of the variant leaves behind without descriptor
WithoutDescriptor ==
    compositeFrameBeauty(out, ctxOK, tempCanvas, originalCanvas, call.frame, call.mask,
                         WithFilter(call.options, NoFilter)).canvas

\* C12: compositeFrame applies the global beauty filter only for a descriptor of
\* kind other than 'none' and intensity > 0: with intensity 0, kind 'none' or no
\* descriptor the output equals that of the same call without descriptor, in
\* every mode.
C12_FilterNeedsIntensity ==
    [][(/\ Pending("compositeFrameBeauty")
        /\ \/ call.options.beautyFilter = NoFilter
           \/ call.options.beautyFilter.type = "none"
           \/ call.options.beautyFilter.intensity = 0)
            => out' = WithoutDescriptor]_vars

\* a direct call whose descriptor has kind 'none' or an intensity that is
\* absent, zero or negative
NoOpDescriptor ==
    \/ call.options.type = "none"
    \/ call.options.intensity = NoNumber
    \/ call.options.intensity <= 0

\* C13: applyBeautyFilter called directly with kind 'none', or with an intensity
\* that is zero, negative or absent, returns normally and leaves the surface
\* exactly as it was (also on a surface without a 2D context).
C13_DirectCallNoOp ==
    [][(Pending("applyBeautyFilter") /\ NoOpDescriptor)
            => /\ out' = out
               /\ call'.res = "done"]_vars

\* a direct call with intensity 0 or below has returned on a painted surface
C13_Witness ==
    /\ Returned("applyBeautyFilter")
    /\ call.options.type # "none"
    /\ call.options.intensity # NoNumber /\ call.options.intensity <= 0
    /\ \E p \in DOMAIN out.px : out.px[p] # T

\* the step in which a compositing call returns
CompositingReturns ==
    /\ call.phase = "pending" /\ call'.phase = "returned"
    /\ call.op \in {"compositeFrame", "compositeFrameWithBeautyFilters", "compositeFrameBeauty"}

\* C14: over any sequence of compositeFrame / compositeFrameWithBeautyFilters
\* calls at most one foreground scratch surface is ever created: once one
\* exists, no later call creates another.
C14_OneScratchSurface ==
    [][(scratchMade /\ CompositingReturns) => ~call'.created]_vars

\* the (detection, filter) index pairs that are due in a renderer call
DuePairs ==
    {v \in (1..Len(call.detections)) \X (1..Len(call.filters)) :
        call.detections[v[1]].state = 1 /\ call.filters[v[2]].enabled # "false"}

\* detections-outer / filters-inner order of two index pairs
Precedes(v, w) == v[1] < w[1] \/ (v[1] = w[1] /\ v[2] < w[2])

AppliedPairs == {call.applied[k] : k \in DOMAIN call.applied}

\* the applications of a call are due pairs, each once, in the loops' order
AppliedInOrder ==
    /\ AppliedPairs \subseteq DuePairs
    /\ \A k \in DOMAIN call.applied : \A l \in DOMAIN call.applied :
            k < l => Precedes(call.applied[k], call.applied[l])

TooShort(detection, filter) ==
    \/ filter.type = "eye-enhancement" /\ detection.landmarks.length <= 133
    \/ filter.type = "lip-enhancement" /\ detection.landmarks.length <= 14
    \/ filter.type = "blush" /\ detection.landmarks.length <= 352

\* the pending renderer call's visits without those on too short landmarks
OtherVisits ==
    LET keep(v) == ~TooShort(call.detections[v[1]], call.filters[v[2]])
    IN SelectSeq(Visits(call.detections, call.filters, 1, 1), keep)

\* C16: a landmark-based filter (eye-enhancement, lip-enhancement, blush) on a
\* detection whose landmarks are missing, empty or too short does not throw and
\* draws nothing, and the remaining filters and detections are still applied:
\* the call leaves the surface that applying only the other pairs leaves, and
\* returns normally unless one of those throws.
C16_ShortLandmarksSkipped ==
    [][(/\ Pending("applyBeautyFilters") /\ ctxOK
        /\ \E i \in DOMAIN call.detections : \E j \in DOMAIN call.filters :
              /\ call.detections[i].state = 1 /\ call.filters[j].enabled # "false"
              /\ TooShort(call.detections[i], call.filters[j]))
            => LET others == applyVisits(out, call.detections, call.filters, OtherVisits, 1)
               IN /\ out' = others.canvas
                  /\ call'.res = others.res]_vars

\* a call has returned that visited a detection with a non-empty but too short
\* landmark sequence, and drew for another pair
C16_Witness ==
    /\ Returned("applyBeautyFilters") /\ ctxOK /\ call.res = "done"
    /\ \E k \in DOMAIN call.applied : \E l \in DOMAIN call.applied :
          /\ TooShort(call.detections[call.applied[k][1]], call.filters[call.applied[k][2]])
          /\ call.detections[call.applied[k][1]].landmarks.length > 0
          /\ ~TooShort(call.detections[call.applied[l][1]], call.filters[call.applied[l][2]])
    /\ \E p \in DOMAIN out.px : out.px[p] # T

\* C17: every facial filter kind applied with intensity 0 has no visible
\* effect: a renderer call whose filters all have intensity 0 leaves the
\* surface unchanged.
C17_ZeroIntensityInvisible ==
    [][(/\ Pending("applyBeautyFilters") /\ ctxOK
        /\ \A j \in DOMAIN call.filters : call.filters[j].intensity = 0)
            => out' = out]_vars

\* a direct preloadBackgrounds call whose promise has settled
Settled(c) == c.caller = "direct" /\ c.promise.state # "pending"

\* C18: preloadBackgrounds never rejects; it resolves only after every image
\* load has settled, with a list of the same length whose i-th entry is for
\* specs[i]; entry i has ready = false and an error exactly when its image load
\* failed, and every other entry is ready with no error.
C18_PreloadSettlesAll ==
    \A k \in DOMAIN preloads : Settled(preloads[k]) =>
        LET c == preloads[k]
            result == c.promise.value
        IN /\ c.promise.state = "fulfilled"
           /\ \A i \in DOMAIN c.loads : c.loads[i] # "pending"
           /\ Len(result) = Len(c.options)
           /\ \A i \in DOMAIN c.options :
                /\ result[i].option = c.options[i]
                /\ result[i].isReady = (c.loads[i] # "failed")
                /\ (result[i].error # NoError) = (c.loads[i] = "failed")

\* a call of two images has resolved: the first load failed, the second succeeded
C18_Witness ==
    \E k \in DOMAIN preloads :
        /\ Settled(preloads[k]) /\ Len(preloads[k].options) = 2
        /\ preloads[k].loads = <<"failed", "loaded">>
        /\ preloads[k].promise.value[2].isReady

\* C19: every resolved entry of type 'image' that is ready carries a loaded
\* image; an image entry without one (failed load, or no src) is not ready.
C19_ReadyImageHasDrawable ==
    \A k \in DOMAIN preloads : (Settled(preloads[k]) /\ preloads[k].promise.state = "fulfilled") =>
        \A i \in DOMAIN preloads[k].promise.value :
            LET entry == preloads[k].promise.value[i]
            IN (entry.option.type = "image" /\ entry.isReady) => entry.image # NoImage

\* the preloads of the hook have all settled
AllSettled ==
    /\ preloads # <<>>
    /\ \A k \in DOMAIN preloads : preloads[k].promise.state # "pending"

\* C20: when options.backgrounds changes while an earlier preload is in flight,
\* its late resolution is ignored: once all preloads have settled,
\* availableBackgrounds and the default currentBackground are those of the
\* most recent backgrounds list.
C20_StalePreloadIgnored ==
    AllSettled =>
        /\ Len(availableBackgrounds) = Len(backgrounds)
        /\ \A i \in DOMAIN backgrounds : availableBackgrounds[i].option = backgrounds[i]
        /\ currentBackground = DefaultBackground(availableBackgrounds, defaultMode)
        /\ currentBackground # Null => \E i \in DOMAIN backgrounds :
                                            currentBackground.option = backgrounds[i]

\* the pending compositeFrameWithBeautyFilters call has no face filter to apply
NoFaceFilters ==
    \/ ~call.faceDetections.given
    \/ ~call.beautyFilters.given
    \/ Len(call.beautyFilters.list) = 0

\* C21: compositeFrameWithBeautyFilters without face filters (or without
\* detections) leaves the output surface that compositeFrame leaves for the same
\* frame, mask and options, and ends the same way, in every mode and for both
\* mirror settings.
C21_SameAsCompositeFrame ==
    [][(Pending("compositeFrameWithBeautyFilters") /\ NoFaceFilters)
            => LET plain == compositeFrame(out, ctxOK, call.frame, call.mask, call.options)
               IN /\ out' = plain.out
                  /\ call'.res = plain.res]_vars

\* C22: every frame the hook composites is composited with the detections most
\* recently delivered by onTrack and with the beauty-filter list as it is now,
\* also when neither background, blur nor mirror changed since.
C22_FrameUsesCurrentDetectionsAndFilters ==
    [][(OnResults \/ DrawLoopFrame)
           => composited' = CompositeCall(enableFaceFilters, loop.kind, currentBackground,
                                          faceDetections, beautyFilters, mirror)]_vars

\* the calls so far are start() / stop() cycles, each start() awaited and successful
SuccessfulCycles(log) ==
    /\ Len(log) % 3 = 0
    /\ \A i \in DOMAIN log : log[i][1] = <<"start", "resolved", "stop">>[((i - 1) % 3) + 1]

\* C23: a WebcamManager starts 'idle'; a successful start() ends 'ready' holding
\* the stream just acquired; stop() on a held stream stops its tracks, clears it
\* and sets 'idle'; after any number of start() / stop() cycles in sequence the
\* status is 'idle' and no acquired track is live.
C23_WebcamLifecycle ==
    /\ webcam.status = "idle"
    /\ [][/\ WebcamAcquired
              => /\ webcam'.status = "ready"
                 /\ webcam'.stream # NoStream
                 /\ webcam'.stream \notin webcam.live
                 /\ webcam'.stream \in webcam'.live
          /\ (WebcamStop /\ webcam.stream # NoStream)
              => /\ webcam'.stream = NoStream
                 /\ webcam'.status = "idle"
                 /\ webcam.stream \notin webcam'.live
          /\ SuccessfulCycles(webcamLog')
              => /\ webcam'.status = "idle"
                 /\ webcam'.live = {}]_vars

\* two full cycles were made
C23_Witness ==
    /\ SuccessfulCycles(webcamLog)
    /\ Len(webcamLog) = 6

\* the last thing that happened to the manager is a rejected start()
LastRejected ==
    /\ Len(webcamLog) > 0
    /\ webcamLog[Len(webcamLog)][1] = "rejected"

\* the WebcamError type documented for a device error name
TypeFor(name) ==
    CASE name = "NotAllowedError" -> "permission-denied"
      [] name = "NotFoundError" -> "not-found"
      [] OTHER -> "unknown"

\* C24 as stated: after a rejected start() the status is 'error', getError()
\* returns the error start() rejected with, and no stream is held.
C24_AsStated ==
    LastRejected
        => /\ webcam.status = "error"
           /\ webcam.error = webcamLog[Len(webcamLog)][2]
           /\ webcam.stream = NoStream

\* C24: when acquisition fails, start() rejects with a WebcamError of type
\* 'permission-denied' for NotAllowedError, 'not-found' for NotFoundError and
\* 'unknown' otherwise; status is then 'error', getError() returns that error,
\* and the call acquires no stream: the stream held before it, if any, is the
\* stream held after it. A start() call clears the error and a successful
\* acquisition leaves it cleared.
C24_FailedStart ==
    [][/\ \A err \in DeviceErrors :
              WebcamRejects(err)
                  => LET rejection == webcamLog'[Len(webcamLog')][2]
                     IN /\ rejection[1] = "WebcamError"
                        /\ rejection[2] = TypeFor(err.name)
                        /\ webcam'.status = "error"
                        /\ webcam'.error = rejection
                        /\ webcam'.stream = webcam.stream
                        /\ webcam'.live = webcam.live
       /\ WebcamStart => webcam'.error = NoError
       /\ (WebcamAcquired /\ webcam.error = NoError) => webcam'.error = NoError]_vars

\* a start() was rejected and a later start() has just succeeded with the error cleared
C24_Witness ==
    /\ \E i \in DOMAIN webcamLog :
          /\ webcamLog[i][1] = "rejected"
          /\ i + 2 = Len(webcamLog)
          /\ webcamLog[i + 1][1] = "start"
          /\ webcamLog[i + 2][1] = "resolved"
    /\ webcam.error = NoError
    /\ webcam.status = "ready"

\* getInstance() throws until a load() has completed and returns an instance after
InstanceOnlyAfterLoad ==
    IF loader.succeeded
    THEN /\ getInstance(loader)[1] = "return"
         /\ getInstance(loader)[2].made
    ELSE /\ getInstance(loader)[1] = "throw"
         /\ getInstance(loader)[2] = "MediaPipe not loaded"

\* C25: getInstance() throws 'MediaPipe not loaded' as long as no load() has
\* completed (before load, during load, after a failed load) and returns an
\* instance afterwards; a failed load() rejects with its error, getError()
\* returns that error, the loader is as loaded as it was, and load() on a loader
\* that never completed a load tries to load again.
C25_InstanceOnlyAfterLoad ==
    [][/\ InstanceOnlyAfterLoad
       /\ InstanceOnlyAfterLoad'
       /\ ScriptFails
           => /\ loader'.outcome[1] = "rejected"
              /\ loader'.outcome[2] = loader'.loadError
              /\ loader'.loadError # NoError
              /\ loader'.isLoaded = loader.isLoaded
       /\ (LoaderLoad /\ ~loader.succeeded)
           => \/ loader'.inflight = loader.inflight + 1
              \/ loader'.succeeded]_vars

\* one load() failed, one completed, and the last load() to settle resolved
C25_Witness ==
    /\ loader.succeeded
    /\ loader.outcome[1] = "resolved"
    /\ loader.loadError # NoError
    /\ getInstance(loader)[1] = "return"

\* C26: once load() has completed, the instance is configured with the model
\* most recently requested: that of the last setModelSelection call, made before
\* or after the load completed, else the modelSelection option of the constructor.
C26_LatestModelConfigured ==
    loader.isLoaded
        => loader.selfieSegmentation.model =
               IF loader.requested # NoNumber THEN loader.requested
               ELSE OrZero(loader.modelSelection)

\* C27: after setBackground(bg) the current background is bg, for every call,
\* however short the time since the last change.
C27_SetBackgroundTakesEffect ==
    requestedBackground # Null => currentBackground = requestedBackground

\* C30: with frameSkip = N >= 1, of the frames delivered to onFrame since the
\* loop started exactly the frames N, 2N, 3N, ... are sent to segmentation (every
\* frame for N = 1); JeelizManager.onTrack passes on exactly every N-th callback
\* in the same way, with N = 1 when its frameSkip is not set.
C30_EveryNthFrame ==
    [][/\ OnFrame => (loop'.pending <=> (loop'.delivered % frameSkip = 0))
       /\ OnTrack => (jeeliz'.processed <=> (jeeliz'.delivered % OrOne(jeeliz.frameSkip) = 0))]_vars

\* the fourth frame and the fourth callback have gone through with N = 2
C30_Witness ==
    /\ frameSkip = 2 /\ loop.kind = "camera" /\ loop.delivered = 4 /\ loop.pending
    /\ jeeliz.frameSkip = 2 /\ jeeliz.delivered = 4 /\ jeeliz.processed

\* C28: when an image of the hook's preload has failed to load and the preload
\* has settled, onError has been called with the load error.
C28_LoadFailureReachesOnError ==
    \A k \in DOMAIN preloads :
        (preloads[k].caller = "hook" /\ preloads[k].promise.state # "pending")
            => \A i \in DOMAIN preloads[k].loads :
                   preloads[k].loads[i] = "failed"
                       => \E c \in DOMAIN onErrorCalls :
                              onErrorCalls[c] = LoadError(preloads[k].options[i].src)

\* run r has failed
Failed(r) == r.phase = "failed"

\* C29: when WebcamManager.start or MediaPipe loading fails in a run of the
\* initialisation, status becomes 'error', error is the failure and onError is
\* called with it; a run whose webcam failed never calls load(), and a failed
\* run has not set status 'ready'.
C29_InitFailureSurfaces ==
    [][/\ \A k \in DOMAIN runs :
             /\ \A err \in DeviceErrors :
                   InitWebcamRejects(k, err)
                       => /\ status' = "error"
                          /\ error' = runs'[k].webcam.error
                          /\ error'[1] = "WebcamError"
                          /\ onErrorCalls' = Append(onErrorCalls, error')
             /\ InitScriptFails(k)
                   => /\ status' = "error"
                      /\ error' = runs'[k].loader.loadError
                      /\ error'[1] = "Error"
                      /\ onErrorCalls' = Append(onErrorCalls, error')
       /\ \A k \in DOMAIN runs' :
             /\ Failed(runs'[k]) => ~runs'[k].setReady
             /\ runs'[k].webcam.status = "error" => runs'[k].loader.loads = 0]_vars

\* a first run failed on the webcam, a second one on MediaPipe
C29_Witness ==
    /\ Len(runs) = 2
    /\ Failed(runs[1]) /\ runs[1].webcam.status = "error"
    /\ Failed(runs[2]) /\ runs[2].loader.loadError # NoError
    /\ status = "error"
    /\ Len(onErrorCalls) = 2

\* C31: every frame the hook draws is drawn mirrored when the mirror setting is
\* true and unmirrored when it is false, with and without a background.
C31_FrameFollowsMirror ==
    [][(OnResults \/ DrawLoopFrame) => composited'.mirror = mirror]_vars

C38_QuietAfterDestroy ==
    jeelizManager.destroyed =>
        /\ ~isReady(jeelizManager)
        /\ jeelizManager.status = "loading"
        /\ jeelizManager.lastDetections = <<>>
        /\ jeelizManager.afterDestroy = 0

\* C40: every detection the manager holds and delivers has no landmarks and a
\* positive confidence not below the configured threshold, and the renderer with
\* one of the landmark kinds draws nothing for the delivered list.
C40_NoLandmarksAboveThreshold ==
    /\ \A i \in DOMAIN jeelizManager.lastDetections :
          LET d == jeelizManager.lastDetections[i]
          IN /\ d.landmarks.length = 0
             /\ d.confidence > 0
             /\ jeelizManager.detectionThreshold # NoNumber
                   => d.confidence >= jeelizManager.detectionThreshold
    /\ \A t \in {"eye-enhancement", "lip-enhancement", "blush"} :
          applyBeautyFilters(Blank(MaxW, 1), jeelizManager.lastDetections,
                             <<Filter(t, NoNumber, Undef)>>)
            = [canvas |-> Blank(MaxW, 1), res |-> "done",
               applied |-> Visits(jeelizManager.lastDetections,
                                  <<Filter(t, NoNumber, Undef)>>, 1, 1)]

\* a detected face above the configured threshold was delivered
C40_Witness ==
    /\ jeelizManager.onTrackCalls > 0
    /\ jeelizManager.detectionThreshold = 8
    /\ Len(jeelizManager.lastDetections) = 1
    /\ jeelizManager.lastDetections[1].state = 1

\* C39: a setBackground call less than 300 ms after the last accepted one changes
\* neither the current background nor the recorded time; a call 300 ms or more
\* after it (the first call included) is applied; the background changes only in
\* an accepted call, so a dropped request is never applied later, and two
\* accepted calls are at least 300 ms apart.
C39_DebounceDrops ==
    [][/\ SetBackground =>
              IF now - lastBgChange < 3
              THEN currentBackground' = currentBackground /\ lastBgChange' = lastBgChange
              ELSE currentBackground' = requestedBackground' /\ lastBgChange' = now
       /\ currentBackground' # currentBackground =>
              now - lastBgChange >= 3 /\ currentBackground' = requestedBackground'
       /\ lastBgChange' # lastBgChange => lastBgChange' - lastBgChange >= 3]_vars

\* a call was accepted 300 ms or more after an earlier one and the request that
\* followed it was dropped
C39_Witness ==
    /\ lastBgChange >= 2 * BG_CHANGE_DEBOUNCE
    /\ now - lastBgChange < BG_CHANGE_DEBOUNCE
    /\ requestedBackground # Null
    /\ requestedBackground # currentBackground

\* the last call made on the manager was stop()
StopCalledLast(log) ==
    \E i \in DOMAIN log :
        /\ log[i][1] = "stop"
        /\ \A j \in DOMAIN log : j > i => log[j][1] # "start"

\* C34: once stop() was the last call and no start() is pending, the manager
\* holds no stream and no acquired track is live, whether stop() came while a
\* start() was in flight or after two start() calls in a row.
C34_StoppedMeansReleased ==
    (StopCalledLast(webcamLog) /\ webcam.inflight = 0)
        => webcam.stream = NoStream /\ webcam.live = {}

\* C35: a run of the compositing effect that has been cleaned up has no running
\* camera and its camera is not started afterwards.
C35_CleanedUpStaysStopped ==
    \A k \in DOMAIN effects :
        effects[k].cancelled =>
            /\ effects[k].camera # "running"
            /\ effects[k].lateStarts = 0

\* the current initialisation run has succeeded, the latest preload has resolved
\* and no error is recorded
InitAndPreloadDone ==
    /\ runs # <<>> /\ runs[Len(runs)].phase = "done" /\ runs[Len(runs)].isMounted
    /\ preloads # <<>> /\ preloads[Len(preloads)].promise.state = "fulfilled"
    /\ error = NoError

\* C37: once initialisation has succeeded and the latest preload has resolved,
\* the status becomes 'ready' (unless a new run, a new preload or an error
\* intervenes), also after options.backgrounds was replaced.
C37_ReadyEventually ==
    InitAndPreloadDone ~> (status = "ready" \/ ~InitAndPreloadDone)

\* C36: when applyBeautyFilter runs skin-smoothing or sharpen, both scratch
\* canvases have the width and height of the target surface when the surface is
\* copied, whatever calls came before.
C36_ScratchMatchesSurface ==
    [][(/\ ApplyBeautyFilter
        /\ call.options.type \in {"skin-smoothing", "sharpen"}
        /\ call.options.intensity # NoNumber /\ call.options.intensity > 0 /\ ctxOK)
          => /\ tempCanvas'.width = out.width /\ tempCanvas'.height = out.height
             /\ originalCanvas'.width = out.width
             /\ originalCanvas'.height = out.height]_vars

\* the descriptor of the returned call is active: a kind other than 'none' and a
\* positive intensity
ActiveFilter ==
    /\ call.options.beautyFilter # NoFilter
    /\ call.options.beautyFilter.type # "none"
    /\ call.options.beautyFilter.intensity # NoNumber
    /\ call.options.beautyFilter.intensity > 0

\* the beauty filter was applied once, after every other drawing step
BeautyOnceAndLast(steps) ==
    /\ Len(steps) > 0 /\ steps[Len(steps)] = "beauty"
    /\ \A i \in 1..(Len(steps) - 1) : steps[i] # "beauty"

\* C33 as stated: every compositeFrame call that returns normally with an active
\* descriptor has applied the filter exactly once, as its last drawing step.
C33_AsStated ==
    (Returned("compositeFrameBeauty") /\ call.res = "done" /\ ActiveFilter)
        => BeautyOnceAndLast(call.steps)

\* C33: the same for calls without the debug view debugMode = 'temp', which
\* returns before the filter is applied.
C33_BeautyLast ==
    (/\ Returned("compositeFrameBeauty") /\ call.res = "done" /\ ActiveFilter
     /\ call.options.debugMode # "temp")
        => BeautyOnceAndLast(call.steps)

\* calls with an active descriptor have returned in mode 'none' and with a
\* background
C33_Witness ==
    /\ Returned("compositeFrameBeauty") /\ call.res = "done" /\ ActiveFilter
    /\ call.options.debugMode # "temp"
    /\ call.options.mode = "blur"
    /\ call.steps = <<"background", "foreground", "beauty">>

\* C8: after every compositeFrame call that passes the frame validation the
\* output surface has the frame's resolution as the validation computed it.
C8_SizeFollowsFrame ==
    Returned("compositeFrame") /\ Validate(ctxOK, call.frame) = "go"
        => /\ out.width = OrElse(call.frame.width, call.frame.videoWidth)
           /\ out.height = OrElse(call.frame.height, call.frame.videoHeight)

\* C9: with a frame of positive size and an output surface without 2D context,
\* both functions throw 'No 2D context on output canvas' before the surface is
\* resized or drawn on.
C9_NoContextThrows ==
    [][(/\ call.phase = "pending"
        /\ call.op \in {"compositeFrame", "compositeFrameWithBeautyFilters"}
        /\ ~ctxOK /\ ~ZeroFrame(call.frame))
            => (call'.res = "No 2D context on output canvas" /\ out' = out)]_vars

\* the call threw and the surface still has a size different from the frame's
C9_Witness ==
    /\ Returned("compositeFrameWithBeautyFilters") /\ ~ctxOK
    /\ call.res = "No 2D context on output canvas"
    /\ call.frame.width # 0 /\ out.width # call.frame.width

\* the facial filter pass of the returned compositeFrameWithBeautyFilters call
FaceStage ==
    applyBeautyFilters(TempMasked(TempFrame(out.width, out.height, call.frame), call.mask),
                       call.faceDetections.list, call.beautyFilters.list)

\* C10: when the beauty-filter stage throws, the compositing call does not
\* propagate the exception and returns with the completed composite of
\* background and foreground on the output surface.
C10_FilterFailureContained ==
    (/\ Returned("compositeFrameWithBeautyFilters")
     /\ Validate(ctxOK, call.frame) = "go" /\ ~MaskEmpty(call.mask)
     /\ call.faceDetections.given /\ call.beautyFilters.given
     /\ FaceStage.res # "done")
        => /\ call.res = "done"
           /\ out = compositeFrameWithBeautyFilters(out, TRUE, call.frame, call.mask,
                                                    Absent, Absent, call.options).out

\* C11: in compositeFrameWithBeautyFilters with mode 'blur' or 'image', the facial
\* filters change subject pixels only: every output pixel under a minimal mask
\* value is the background as it is without face filters, for every filter kind.
C11_FiltersStayOnSubject ==
    (/\ Returned("compositeFrameWithBeautyFilters") /\ call.res = "done"
     /\ Drawable(call.frame) /\ ~MaskEmpty(call.mask)
     /\ call.options.mode \in {"blur", "image"}
     /\ call.faceDetections.given /\ call.beautyFilters.given)
        => \A p \in DOMAIN out.px : MaskAt(p) = 0 => out.px[p] = BackgroundAt(p)
====
